---------------------------- MODULE Spec2Model ----------------------------
(***************************************************************************)
(* Model of the spreadsheet parsing and query layer of the basketball      *)
(* league assistant: the per-grade bracket block parsers, the Form         *)
(* Responses (registration) parser, the Waitlist sheet parser, the Count   *)
(* sheet parser and the queries built on them; the sheet gateway they      *)
(* fetch through and its default client; the HTTP endpoint and the         *)
(* conversation memory of the assistant.                                   *)
(*                                                                         *)
(* A sheet is a grid: a sequence of rows, each a sequence of cells, each   *)
(* cell a string (the Sheets API returns formatted text and drops the      *)
(* trailing empty cells of a row, so rows are ragged).  Python's None is   *)
(* the reserved value None; an optional integer is <<>> or <<n>>.          *)
(***************************************************************************)
EXTENDS Integers, Sequences, FiniteSets, TLC

VARIABLES
    grade,      \* which per-grade bracket sheet `grid` is ("3rd" .. "7/8")
    grid,       \* cell grid of that bracket sheet, as get_values returns it
    forms,      \* cell grid of the "Form Responses 1" sheet
    waitlist,   \* cell grid of the "Waitlist" sheet
    count,      \* cell grid of the "Count" sheet
    edits,      \* number of sheet edits made so far (bounded)
    result,     \* the tool invocation in progress: name, arguments, outcome
    fetches,    \* gateway fetches issued by that invocation
    previous,   \* the invocation before it, while no sheet was edited since
    gateway,    \* "up", or why a fetch fails: "bad credentials", "unreachable",
                \* or the name of the one sheet that is missing
    default_client,  \* sheets_client._default_client of the serving process
    constructed,     \* GoogleSheetsClient objects built so far in that process
    memory,     \* client.memory: the messages checkpointed under each thread_id
    pending     \* a two-fetch query between its fetches: name, grid fetched first

backend == <<gateway, default_client, constructed, memory, pending>>

vars == <<grade, grid, forms, waitlist, count, edits, result, fetches, previous,
          backend>>

\* Bounds of the model: the rows appended to the bracket sheet, to the Form
\* Responses sheet, to the Waitlist sheet and to the Count sheet, and the
\* registrations made while the Count sheet is checked.
MaxEdits == 3
MaxForms == 3
MaxWaitlist == 3
MaxCount == 2
MaxRegistrations == 2

\* the questions whose turns the conversation memory holds
MaxTurns == 2

\* the length of the phone values normalized
MaxPhoneLen == 3

-----------------------------------------------------------------------------
(* Python values *)

None == "<None>"
NoInt == <<>>
SomeInt(n) == <<n>>

\* str(x)
Str(x) == IF x = None THEN "None" ELSE x

\* bool(x) for an optional string
Truthy(x) == x # None /\ x # ""

\* (x or "")
OrEmpty(x) == IF Truthy(x) THEN x ELSE ""

\* (x or None)
OrNone(x) == IF Truthy(x) THEN x ELSE None

-----------------------------------------------------------------------------
(* str methods *)

Char(s, i) == SubSeq(s, i, i)

IsSpace(c) == c \in {" ", "\t", "\n", "\r"}

IsDigit(c) == c \in {"0", "1", "2", "3", "4", "5", "6", "7", "8", "9"}

DigitVal(c) ==
    CASE c = "0" -> 0 [] c = "1" -> 1 [] c = "2" -> 2 [] c = "3" -> 3
      [] c = "4" -> 4 [] c = "5" -> 5 [] c = "6" -> 6 [] c = "7" -> 7
      [] c = "8" -> 8 [] c = "9" -> 9

RECURSIVE LStrip(_)
LStrip(s) == IF s # "" /\ IsSpace(Head(s)) THEN LStrip(Tail(s)) ELSE s

RECURSIVE RStrip(_)
RStrip(s) ==
    IF s # "" /\ IsSpace(Char(s, Len(s)))
    THEN RStrip(SubSeq(s, 1, Len(s) - 1))
    ELSE s

\* s.strip()
Strip(s) == RStrip(LStrip(s))

UpperLetters == "ABCDEFGHIJKLMNOPQRSTUVWXYZ"
LowerLetters == "abcdefghijklmnopqrstuvwxyz"

LetterIndex(letters, c) ==
    IF \E i \in 1..Len(letters) : Char(letters, i) = c
    THEN CHOOSE i \in 1..Len(letters) : Char(letters, i) = c
    ELSE 0

LowerChar(c) ==
    LET i == LetterIndex(UpperLetters, c)
    IN  IF i = 0 THEN c ELSE Char(LowerLetters, i)

UpperChar(c) ==
    LET i == LetterIndex(LowerLetters, c)
    IN  IF i = 0 THEN c ELSE Char(UpperLetters, i)

\* s.lower()
RECURSIVE Lower(_)
Lower(s) == IF s = "" THEN "" ELSE LowerChar(Head(s)) \o Lower(Tail(s))

\* s.upper()
RECURSIVE Upper(_)
Upper(s) == IF s = "" THEN "" ELSE UpperChar(Head(s)) \o Upper(Tail(s))

\* s.startswith(p)
StartsWith(s, p) == Len(s) >= Len(p) /\ SubSeq(s, 1, Len(p)) = p

\* sub in s
Contains(s, sub) ==
    \E i \in 1..(Len(s) - Len(sub) + 1) : SubSeq(s, i, i + Len(sub) - 1) = sub

\* s.replace(sub, ""), sub not empty
RECURSIVE Remove(_, _)
Remove(s, sub) ==
    IF Len(s) < Len(sub) THEN s
    ELSE IF StartsWith(s, sub)
         THEN Remove(SubSeq(s, Len(sub) + 1, Len(s)), sub)
         ELSE Head(s) \o Remove(Tail(s), sub)

\* s.split(sep), sep one character
RECURSIVE Split(_, _)
Split(s, sep) ==
    IF \E i \in 1..Len(s) : Char(s, i) = sep
    THEN LET i == CHOOSE k \in 1..Len(s) :
                    /\ Char(s, k) = sep
                    /\ \A j \in 1..(k - 1) : Char(s, j) # sep
         IN  <<SubSeq(s, 1, i - 1)>> \o Split(SubSeq(s, i + 1, Len(s)), sep)
    ELSE <<s>>

\* "".join(ch for ch in s if ch.isdigit())
RECURSIVE Digits(_)
Digits(s) ==
    IF s = "" THEN ""
    ELSE (IF IsDigit(Head(s)) THEN Head(s) ELSE "") \o Digits(Tail(s))

AllDigits(s) == s # "" /\ \A i \in 1..Len(s) : IsDigit(Char(s, i))

\* the number a digit string denotes
RECURSIVE NatOf(_)
NatOf(s) ==
    IF s = "" THEN 0
    ELSE 10 * NatOf(SubSeq(s, 1, Len(s) - 1)) + DigitVal(Char(s, Len(s)))

\* int(text): surrounding whitespace, an optional sign and decimal digits;
\* NoInt stands for the ValueError
IntOf(text) ==
    LET s == Strip(text)
    IN  IF AllDigits(s) THEN SomeInt(NatOf(s))
        ELSE IF Len(s) > 1 /\ Head(s) = "+" /\ AllDigits(Tail(s))
             THEN SomeInt(NatOf(Tail(s)))
        ELSE IF Len(s) > 1 /\ Head(s) = "-" /\ AllDigits(Tail(s))
             THEN SomeInt(0 - NatOf(Tail(s)))
        ELSE NoInt

\* _parse_int
ParseInt(value) ==
    IF value = None THEN NoInt
    ELSE LET s == Remove(Strip(Str(value)), ",")
         IN  IF s = "" THEN NoInt ELSE IntOf(s)

NormalizePhoneKeepEmpty(phone) ==
    IF ~Truthy(phone) THEN None
    ELSE Digits(Str(phone))

NormalizePhoneStripped(phone) ==
    IF ~Truthy(phone) THEN None
    ELSE OrNone(Strip(Str(phone)))

\* _normalize_phone
NormalizePhone(phone) ==
    IF ~Truthy(phone) THEN None
    ELSE OrNone(Digits(Str(phone)))

\* the order of str values: the printable ASCII characters the sheets use,
\* in code point order
Ascii ==
    " !#$%&'()*+,-./0123456789:;<=>?@ABCDEFGHIJKLMNOPQRSTUVWXYZ[]^_abcdefghijklmnopqrstuvwxyz{|}~"

CharCode(c) == LetterIndex(Ascii, c)

\* a < b on str
RECURSIVE StrLess(_, _)
StrLess(a, b) ==
    IF b = "" THEN FALSE
    ELSE IF a = "" THEN TRUE
    ELSE IF Head(a) = Head(b) THEN StrLess(Tail(a), Tail(b))
    ELSE CharCode(Head(a)) < CharCode(Head(b))

\* list.sort / sorted: a stable sort, Less the strict order of the keys
StableSort(seq, Less(_, _)) ==
    LET RECURSIVE insert(_, _)
        insert(sorted, x) ==
            IF sorted = <<>> THEN <<x>>
            ELSE IF Less(x, Head(sorted))
                 THEN <<x>> \o sorted
                 ELSE <<Head(sorted)>> \o insert(Tail(sorted), x)
        RECURSIVE sort(_)
        sort(s) ==
            IF s = <<>> THEN <<>>
            ELSE insert(sort(SubSeq(s, 1, Len(s) - 1)), s[Len(s)])
    IN  sort(seq)

MapSeq(seq, F(_)) ==
    LET RECURSIVE map(_)
        map(s) == IF s = <<>> THEN <<>> ELSE <<F(Head(s))>> \o map(Tail(s))
    IN  map(seq)

\* an outcome: a returned value or a raised exception
Ok(v) == [status |-> "ok", value |-> v]
Raise(e) == [status |-> e, value |-> <<>>]

\* dict.get(key)
Get(rec, key) == IF key \in DOMAIN rec THEN rec[key] ELSE None

-----------------------------------------------------------------------------
(* Per-grade bracket sheets: block parsers *)

Grades == {"3rd", "4th", "5th", "6th", "7/8"}

\* not any(str(c).strip() for c in row)
RowIsBlank(row) == ~ \E i \in 1..Len(row) : Strip(Str(row[i])) # ""

\* {headers[i]: (row[i] if i < bound else None) for i in range(len(headers))}
\* where bound is len(row) in some parsers and len(headers) in others; a
\* repeated header keeps its last column.  RowDictRaises: row[i] is read
\* past the end of the row (IndexError).
RowDictRaises(headers, row, bound) ==
    \E i \in 1..Len(headers) : i <= bound /\ i > Len(row)

RowDict(headers, row, bound) ==
    [h \in {headers[i] : i \in 1..Len(headers)} |->
        LET i == CHOOSE k \in 1..Len(headers) :
                    /\ headers[k] = h
                    /\ \A j \in (k + 1)..Len(headers) : headers[j] # h
        IN  IF i <= bound THEN row[i] ELSE None]

RowsPastBlank(rows) == SelectSeq(rows, LAMBDA r : ~RowIsBlank(r))

\* the rows before the first blank row ("break")
RECURSIVE RowsUntilBlank(_)
RowsUntilBlank(rows) ==
    IF rows = <<>> \/ RowIsBlank(Head(rows)) THEN <<>>
    ELSE <<Head(rows)>> \o RowsUntilBlank(Tail(rows))

RowsNotBlankStopping(rows) == RowsUntilBlank(rows)

\* the rows that are not blank ("continue")
RowsNotBlank(rows) == SelectSeq(rows, LAMBDA r : ~RowIsBlank(r))

\* records of the data rows, the cell test being i < len(row)
RecordsByRowLen(headers, rows) ==
    Ok(MapSeq(rows, LAMBDA r : RowDict(headers, r, Len(r))))

\* records of the data rows, the cell test being i < len(headers)
RecordsByHeaderLen(headers, rows) ==
    IF \E k \in 1..Len(rows) : RowDictRaises(headers, rows[k], Len(headers))
    THEN Raise("IndexError")
    ELSE Ok(MapSeq(rows, LAMBDA r : RowDict(headers, r, Len(headers))))

\* for idx, row in enumerate(values): if row and str(row[0]).strip().lower()
\* == label: the 0-based index of the first such row at or after idx, -1 if none
RECURSIVE LabelIndexFrom(_, _, _)
LabelIndexFrom(values, label, idx) ==
    IF idx >= Len(values) THEN -1
    ELSE IF /\ values[idx + 1] # <<>>
            /\ Lower(Strip(Str(values[idx + 1][1]))) = label
         THEN idx
         ELSE LabelIndexFrom(values, label, idx + 1)

\* the scan with the index initialised to 0 instead of None
LabelIndexOrFirst(values, label) ==
    IF LabelIndexFrom(values, label, 0) = -1 THEN 0
    ELSE LabelIndexFrom(values, label, 0)

\* the scan without its "break": the last row with the label
LabelIndexLast(values, label) ==
    LET labelled == {i \in 0..(Len(values) - 1) :
                        LabelIndexFrom(values, label, i) = i}
    IN  IF labelled = {} THEN -1
        ELSE CHOOSE i \in labelled : \A j \in labelled : j <= i

LabelIndex(values, label) == LabelIndexFrom(values, label, 0)

\* values[i:]
From(values, i) == SubSeq(values, i + 1, Len(values))

load_3rd_grade_boys_block(values) ==
    IF values = <<>> THEN Ok(<<>>)
    ELSE LET first_cell == IF values[1] # <<>>
                           THEN Lower(Strip(Str(values[1][1]))) ELSE ""
             header_index == IF first_cell = "3rd grade boys" THEN 1 ELSE 0
         IN  IF header_index >= Len(values) THEN Ok(<<>>)
             ELSE RecordsByRowLen(values[header_index + 1],
                                  RowsUntilBlank(From(values, header_index + 1)))

\* index (1-based) of the last header cell that is the label, 0 if none
HeaderColumn(header_row, label) ==
    IF \E i \in 1..Len(header_row) : Strip(Str(header_row[i])) = label
    THEN CHOOSE i \in 1..Len(header_row) :
            /\ Strip(Str(header_row[i])) = label
            /\ \A j \in (i + 1)..Len(header_row) : Strip(Str(header_row[j])) # label
    ELSE 0

load_3rd_grade_girls_block(values) ==
    LET girls_label_index == LabelIndex(values, "3rd grade girls")
        header_index == girls_label_index + 1
    IN  IF values = <<>> \/ girls_label_index = -1 \/ header_index >= Len(values)
        THEN Ok(<<>>)
        ELSE LET header_row == values[header_index + 1]
                 team_name_idx == HeaderColumn(header_row, "Team Name")
                 team_num_idx == HeaderColumn(header_row, "Team #")
                 cell(row, idx) == IF idx <= Len(row) THEN row[idx] ELSE None
                 kept(row) == \/ Strip(Str(cell(row, team_name_idx))) # ""
                              \/ Strip(Str(cell(row, team_num_idx))) # ""
                 rec(row) == [h \in {"Team Name", "Team #"} |->
                                 IF h = "Team Name" THEN cell(row, team_name_idx)
                                 ELSE cell(row, team_num_idx)]
             IN  IF team_name_idx = 0 \/ team_num_idx = 0 THEN Ok(<<>>)
                 ELSE Ok(MapSeq(SelectSeq(RowsUntilBlank(From(values, header_index + 1)),
                                          kept),
                                rec))

load_4th_grade_boys_block(values) ==
    IF Len(values) < 2 THEN Ok(<<>>)
    ELSE RecordsByHeaderLen(values[2], RowsUntilBlank(From(values, 2)))

load_4th_grade_girls_block(values) ==
    IF Len(values) < 16 THEN Ok(<<>>)
    ELSE RecordsByHeaderLen(values[16], RowsUntilBlank(From(values, 16)))

\* the parser without its "if not values" guard: values[0] of an empty grid
load_5th_grade_boys_block_unguarded(values) ==
    IF values = <<>> THEN Raise("IndexError")
    ELSE RecordsByHeaderLen(values[1], RowsUntilBlank(From(values, 1)))

load_5th_grade_boys_block(values) ==
    IF values = <<>> THEN Ok(<<>>)
    ELSE RecordsByHeaderLen(values[1], RowsUntilBlank(From(values, 1)))

load_5th_grade_girls_block(values) ==
    LET girls_label_idx == LabelIndex(values, "5th grade girls")
        header_idx == girls_label_idx + 1
    IN  IF values = <<>> \/ girls_label_idx = -1 \/ header_idx >= Len(values)
        THEN Ok(<<>>)
        ELSE RecordsByHeaderLen(values[header_idx + 1],
                                RowsNotBlank(From(values, header_idx + 1)))

load_6th_grade_boys_block(values) ==
    IF Len(values) < 2 THEN Ok(<<>>)
    ELSE RecordsByRowLen(values[2], RowsUntilBlank(From(values, 2)))

load_6th_grade_girls_block(values) ==
    LET girls_label_idx == LabelIndex(values, "6th grade girls")
        header_idx == girls_label_idx + 1
    IN  IF values = <<>> \/ girls_label_idx = -1 \/ header_idx >= Len(values)
        THEN Ok(<<>>)
        ELSE RecordsByRowLen(values[header_idx + 1],
                             RowsNotBlank(From(values, header_idx + 1)))

load_7_8_grade_boys_block(values) ==
    IF Len(values) < 2 THEN Ok(<<>>)
    ELSE RecordsByRowLen(values[2], RowsUntilBlank(From(values, 2)))

load_7_8_grade_girls_block(values) ==
    LET girls_label_idx == LabelIndex(values, "7/8 grade girls")
        header_idx == girls_label_idx + 1
    IN  IF values = <<>> \/ girls_label_idx = -1 \/ header_idx >= Len(values)
        THEN Ok(<<>>)
        ELSE RecordsByHeaderLen(values[header_idx + 1],
                                RowsNotBlank(From(values, header_idx + 1)))

\* the boys / girls block parser of grade g
load_boys_block(g, values) ==
    CASE g = "3rd" -> load_3rd_grade_boys_block(values)
      [] g = "4th" -> load_4th_grade_boys_block(values)
      [] g = "5th" -> load_5th_grade_boys_block(values)
      [] g = "6th" -> load_6th_grade_boys_block(values)
      [] g = "7/8" -> load_7_8_grade_boys_block(values)

load_girls_block(g, values) ==
    CASE g = "3rd" -> load_3rd_grade_girls_block(values)
      [] g = "4th" -> load_4th_grade_girls_block(values)
      [] g = "5th" -> load_5th_grade_girls_block(values)
      [] g = "6th" -> load_6th_grade_girls_block(values)
      [] g = "7/8" -> load_7_8_grade_girls_block(values)

-----------------------------------------------------------------------------
(* Per-grade bracket sheets: queries *)

BoysDivision(g) == g \o " Boys"
GirlsDivision(g) == g \o " Girls"

\* one record of list_<grade>_grade_boys_teams
BoysTeam(g, headers, row) ==
    LET base == ("Email" :> Get(row, "Email"))
                @@ ("First Name" :> Get(row, "First Name"))
                @@ ("Last Name" :> Get(row, "Last Name"))
                @@ ("Phone" :> NormalizePhone(Get(row, "Phone")))
                @@ ("Team Name" :> Get(row, "Team Name"))
                @@ ("Team #" :> ParseInt(Get(row, "Team #")))
        raw_team_num == Get(row, "Team #")
    IN  IF g = "4th"
        THEN base
             @@ ("is_waitlist" :>
                    (raw_team_num # None /\ Contains(Lower(raw_team_num), "wait")))
             @@ ("Notes" :>
                    IF Len(headers) > 6 THEN Get(row, headers[Len(headers)])
                    ELSE None)
        ELSE base

\* one record of list_<grade>_grade_girls_teams
GirlsTeam(g, row) ==
    IF g \in {"3rd", "4th"}
    THEN ("Team Name" :> Get(row, "Team Name"))
         @@ ("Team #" :> ParseInt(Get(row, "Team #")))
    ELSE ("Email" :> Get(row, "Email"))
         @@ ("First Name" :> Get(row, "First Name"))
         @@ ("Last Name" :> Get(row, "Last Name"))
         @@ ("Phone" :> NormalizePhone(Get(row, "Phone")))
         @@ ("Team Name" :> Get(row, "Team Name"))
         @@ ("Team #" :> ParseInt(Get(row, "Team #")))

\* the header row the boys block parser of grade g returns
BoysHeaders(g, values) ==
    CASE g = "3rd" ->
            IF values # <<>> /\ values[1] # <<>>
               /\ Lower(Strip(Str(values[1][1]))) = "3rd grade boys"
            THEN values[2] ELSE values[1]
      [] g = "5th" -> values[1]
      [] OTHER -> values[2]

list_boys_teams(g, values) ==
    LET block == load_boys_block(g, values)
    IN  IF block.status # "ok" THEN block
        ELSE IF block.value = <<>> THEN Ok(<<>>)
        ELSE Ok(MapSeq(block.value,
                       LAMBDA row : BoysTeam(g, BoysHeaders(g, values), row)))

list_girls_teams(g, values) ==
    LET block == load_girls_block(g, values)
    IN  IF block.status # "ok" THEN block
        ELSE Ok(MapSeq(block.value, LAMBDA row : GirlsTeam(g, row)))

\* the entries when the team name is tested without strip()
EmptySlotEntriesUnstripped(teams, division) ==
    MapSeq(SelectSeq(teams,
                     LAMBDA t : /\ t["Team #"] # NoInt
                                /\ OrEmpty(t["Team Name"]) = ""),
           LAMBDA t : [division |-> division,
                       team_number |-> t["Team #"][1],
                       reason |-> "missing team name"])

\* the entries find_<grade>_grade_empty_team_slots appends for one block
EmptySlotEntries(teams, division) ==
    MapSeq(SelectSeq(teams,
                     LAMBDA t : /\ t["Team #"] # NoInt
                                /\ Strip(OrEmpty(t["Team Name"])) = ""),
           LAMBDA t : [division |-> division,
                       team_number |-> t["Team #"][1],
                       reason |-> "missing team name"])

\* key=lambda x: (x["division"], x["team_number"])
SlotLess(x, y) ==
    \/ StrLess(x.division, y.division)
    \/ x.division = y.division /\ x.team_number < y.team_number

\* the boys block is read from one fetch of the sheet and the girls block
\* from the next one: `first` and `second` are the grids the two fetches return
find_empty_team_slots_fetching(g, first, second) ==
    LET boys == list_boys_teams(g, first)
        girls == list_girls_teams(g, second)
    IN  IF boys.status # "ok" THEN boys
        ELSE IF girls.status # "ok" THEN girls
        ELSE Ok(StableSort(EmptySlotEntries(boys.value, BoysDivision(g))
                           \o EmptySlotEntries(girls.value, GirlsDivision(g)),
                           SlotLess))

\* both fetches returning the same grid
find_empty_team_slots(g, values) == find_empty_team_slots_fetching(g, values, values)

TeamLessAbsentLast(x, y) ==
    LET number(t) == IF t["team_number"] = NoInt THEN 1000 ELSE t["team_number"][1]
    IN  \/ StrLess(x["division"], y["division"])
        \/ x["division"] = y["division"] /\ number(x) < number(y)

\* key=lambda x: (x["division"], x["team_number"] or 0)
TeamLess(x, y) ==
    LET number(t) == IF t["team_number"] = NoInt THEN 0 ELSE t["team_number"][1]
    IN  \/ StrLess(x["division"], y["division"])
        \/ x["division"] = y["division"] /\ number(x) < number(y)

list_all_teams_fetching(g, first, second) ==
    LET boys == list_boys_teams(g, first)
        girls == list_girls_teams(g, second)
        coach(t, named) ==
            ("coach_first_name" :> IF named THEN Get(t, "First Name") ELSE None)
            @@ ("coach_last_name" :> IF named THEN Get(t, "Last Name") ELSE None)
            @@ ("coach_email" :> IF named THEN Get(t, "Email") ELSE None)
            @@ ("coach_phone" :> IF named THEN Get(t, "Phone") ELSE None)
        team(t, division) ==
            ("division" :> division)
            @@ ("team_name" :> Get(t, "Team Name"))
            @@ ("team_number" :> t["Team #"])
        boy(t) ==
            team(t, BoysDivision(g)) @@ coach(t, TRUE)
            @@ (IF g = "4th"
                THEN ("is_waitlist" :> t["is_waitlist"]) @@ ("notes" :> Get(t, "Notes"))
                ELSE <<>>)
        girl(t) ==
            team(t, GirlsDivision(g)) @@ coach(t, g \notin {"3rd", "4th"})
            @@ (IF g = "4th"
                THEN ("is_waitlist" :> FALSE) @@ ("notes" :> None)
                ELSE <<>>)
    IN  IF boys.status # "ok" THEN boys
        ELSE IF girls.status # "ok" THEN girls
        ELSE Ok(StableSort(MapSeq(boys.value, boy) \o MapSeq(girls.value, girl),
                           TeamLess))

\* both fetches returning the same grid
list_all_teams(g, values) == list_all_teams_fetching(g, values, values)

-----------------------------------------------------------------------------
(* Sheet contents the model draws from *)

HeaderRow == <<"Email", "First Name", "Last Name", "Phone", "Team Name", "Team #">>
NamedRow == <<"al@x.org", "Al", "Lee", "(573) 230-8287", "Hawks", "1">>
PlaceholderRow == <<"", "", "", "", " ", "2">>
ShortRow == <<"cy@x.org", "Cy">>
BlankRow == <<"", " ">>
BoysLabelRow(g) == <<g \o " Grade Boys">>
GirlsLabelRow(g) == <<g \o " Grade Girls">>

\* rows an edit may append to the bracket sheet of grade g
BracketRows(g) ==
    {GirlsLabelRow(g), HeaderRow, NamedRow, PlaceholderRow, ShortRow, BlankRow}

\* the layout the parsers' docstrings describe, up to the girls header
Layout(g) ==
    CASE g = "5th" ->
            <<HeaderRow, NamedRow, <<>>, GirlsLabelRow(g), HeaderRow>>
      [] g = "4th" ->
            <<BoysLabelRow(g), HeaderRow, NamedRow>>
            \o [i \in 1..11 |-> <<>>]
            \o <<GirlsLabelRow(g), HeaderRow>>
      [] OTHER ->
            <<BoysLabelRow(g), HeaderRow, NamedRow, <<>>, GirlsLabelRow(g), HeaderRow>>

\* the same layout on a sheet whose label rows carry another title
Unlabelled(g) ==
    [i \in DOMAIN Layout(g) |->
        IF Layout(g)[i] \in {BoysLabelRow(g), GirlsLabelRow(g)}
        THEN <<"Teams">> ELSE Layout(g)[i]]

-----------------------------------------------------------------------------
(* The sheet gateway: get_default_client().get_values(sheet, range) *)

\* the name of the bracket sheet of a grade
BracketSheet(g) == g \o " Grade"

\* the exception a fetch of `sheet` ends with, None when it returns the values
FetchError(sheet) ==
    CASE gateway = "bad credentials" -> "FileNotFoundError"
      [] gateway = "unreachable" -> "HttpError 404"
      [] gateway = sheet -> "HttpError 400"
      [] OTHER -> None

\* the first fetch that fails among the fetches an invocation issues in
\* order, 0 when none does
FirstFailure(sheets) ==
    LET failing == {i \in 1..Len(sheets) : FetchError(sheets[i]) # None}
    IN  IF failing = {} THEN 0
        ELSE CHOOSE i \in failing : \A j \in failing : i <= j

FetchedOrEmpty(sheets, outcome) ==
    IF FirstFailure(sheets) = 0 THEN outcome ELSE Ok(<<>>)

\* the outcome of an invocation that issues these fetches and, if all of them
\* return, ends with `outcome`: no loader and no query catches the exception
\* of a fetch
Fetched(sheets, outcome) ==
    IF FirstFailure(sheets) = 0 THEN outcome
    ELSE Raise(FetchError(sheets[FirstFailure(sheets)]))

\* the fetches the invocation issues: all of them, or up to the failing one
Issued(sheets) ==
    IF FirstFailure(sheets) = 0 THEN Len(sheets) ELSE FirstFailure(sheets)

-----------------------------------------------------------------------------
(* The globals of a process: the default client and the conversation memory *)

\* _default_client: Optional[GoogleSheetsClient] = None
NoClient == <<>>

\* GoogleSheetsClient(spreadsheet_id, credentials_file, read_only): the n-th
\* object of the process, with the scope read_only chooses; the credentials
\* file is read here
GoogleSheetsClient(read_only, n) ==
    IF gateway = "bad credentials" THEN Raise("FileNotFoundError")
    ELSE Ok([id |-> n, read_only |-> read_only])

get_default_client_per_scope(read_only) ==
    LET stale == \/ default_client = NoClient
                 \/ default_client[1].read_only # read_only
        built == GoogleSheetsClient(read_only, constructed + 1)
    IN  IF ~stale
        THEN [out |-> Ok(default_client[1]), default_client |-> default_client,
              constructed |-> constructed]
        ELSE IF built.status # "ok"
        THEN [out |-> built, default_client |-> default_client,
              constructed |-> constructed]
        ELSE [out |-> built, default_client |-> <<built.value>>,
              constructed |-> constructed + 1]

\* get_default_client(read_only): what it returns or raises, and the globals
\* after it
get_default_client(read_only) ==
    LET built == GoogleSheetsClient(read_only, constructed + 1)
    IN  IF default_client # NoClient
        THEN [out |-> Ok(default_client[1]), default_client |-> default_client,
              constructed |-> constructed]
        ELSE IF built.status # "ok"
        THEN [out |-> built, default_client |-> default_client,
              constructed |-> constructed]
        ELSE [out |-> built, default_client |-> <<built.value>>,
              constructed |-> constructed + 1]

\* thread_id of a user's conversation
get_user_config(user_id) == "user_" \o user_id

\* process_question(agent, user_question, user_id): the agent runs under the
\* thread of user_id; the memory once the question and its answer are
\* checkpointed there
process_question(user_question, user_id, answer) ==
    [memory EXCEPT ![get_user_config(user_id)] = @ \o <<user_question, answer>>]

\* ask_question(question, division_filter=None, user_id="default_user")
ask_question(question, user_id, answer) ==
    process_question(question, user_id, answer)

\* the gateway answers, no client is built yet, MemorySaver() is empty
\* no two-fetch query is between its fetches
NoPending == <<>>

InitBackend ==
    /\ gateway = "up"
    /\ default_client = NoClient
    /\ constructed = 0
    /\ memory = [t \in {get_user_config(u) : u \in {"ann", "bob", "default_user"}}
                    |-> <<>>]
    /\ pending = NoPending

-----------------------------------------------------------------------------
(* The bracket sheet and its queries as a state machine *)

NoResult == [fn |-> "", args |-> <<>>, out |-> Ok(<<>>)]

InitBracket ==
    /\ grade \in Grades
    /\ grid \in {<<>>, Layout(grade), Unlabelled(grade)}
    /\ forms = <<>>
    /\ waitlist = <<>>
    /\ count = <<>>
    /\ edits = 0
    /\ result = NoResult
    /\ fetches = 0
    /\ previous = NoResult
    /\ InitBackend

\* a person edits the bracket sheet: one more row
AppendBracketRow ==
    /\ result = NoResult
    /\ edits < MaxEdits
    /\ \E r \in BracketRows(grade) : grid' = Append(grid, r)
    /\ edits' = edits + 1
    /\ UNCHANGED <<backend, grade, forms, waitlist, count, result, fetches,
                   previous>>

CallListBoysTeams ==
    /\ result = NoResult
    /\ result' = [fn |-> "list_boys_teams", args |-> <<>>,
                  out |-> Fetched(<<BracketSheet(grade)>>,
                                  list_boys_teams(grade, grid))]
    /\ fetches' = Issued(<<BracketSheet(grade)>>)
    /\ UNCHANGED <<backend, grade, grid, forms, waitlist, count, edits,
                   previous>>

CallListGirlsTeams ==
    /\ result = NoResult
    /\ result' = [fn |-> "list_girls_teams", args |-> <<>>,
                  out |-> Fetched(<<BracketSheet(grade)>>,
                                  list_girls_teams(grade, grid))]
    /\ fetches' = Issued(<<BracketSheet(grade)>>)
    /\ UNCHANGED <<backend, grade, grid, forms, waitlist, count, edits,
                   previous>>

CallFindEmptyTeamSlots ==
    /\ result = NoResult
    /\ LET sheets == IF list_boys_teams(grade, grid).status = "ok"
                             THEN <<BracketSheet(grade), BracketSheet(grade)>>
                             ELSE <<BracketSheet(grade)>>
       IN  /\ result' = [fn |-> "find_empty_team_slots", args |-> <<>>,
                         out |-> Fetched(sheets,
                                         find_empty_team_slots(grade, grid))]
           /\ fetches' = Issued(sheets)
    /\ UNCHANGED <<backend, grade, grid, forms, waitlist, count, edits,
                   previous>>

CallListAllTeams ==
    /\ result = NoResult
    /\ LET sheets == IF list_boys_teams(grade, grid).status = "ok"
                     THEN <<BracketSheet(grade), BracketSheet(grade)>>
                     ELSE <<BracketSheet(grade)>>
       IN  /\ result' = [fn |-> "list_all_teams", args |-> <<>>,
                         out |-> Fetched(sheets, list_all_teams(grade, grid))]
           /\ fetches' = Issued(sheets)
    /\ UNCHANGED <<backend, grade, grid, forms, waitlist, count, edits,
                   previous>>

\* the invocation ends; its records are discarded
Return ==
    /\ result # NoResult
    /\ result' = NoResult
    /\ fetches' = 0
    /\ UNCHANGED <<backend, grade, grid, forms, waitlist, count, edits,
                   previous>>

NextBracket ==
    \/ AppendBracketRow
    \/ Return
    \/ CallListBoysTeams
    \/ CallListGirlsTeams
    \/ CallFindEmptyTeamSlots
    \/ CallListAllTeams

SpecBracket == InitBracket /\ [][NextBracket]_vars

-----------------------------------------------------------------------------
(* Properties of the bracket sheet queries *)

C6_ShortRowTolerated ==
    result.fn \in {"list_boys_teams", "list_girls_teams"} =>
        result.out.status = "ok"

\* C8: when the fetched range is empty, the boys and the girls list query of
\* every grade return the empty list and raise no error.
C8_EmptyRangeEmptyList ==
    (grid = <<>> /\ result.fn \in {"list_boys_teams", "list_girls_teams"}) =>
        result.out = Ok(<<>>)

C8_Witness ==
    /\ grid = <<>>
    /\ result.fn = "list_boys_teams"
    /\ result.out.status = "ok"

\* C9 (as stated): for every block parser whose block has a label row
\* (every girls block; the boys block of the 3rd, 4th, 6th and 7/8 grade
\* sheets), if no row of the grid has the label text in its first cell,
\* compared case-insensitively after stripping, the block is empty and no
\* error is raised.
C9_NoLabelEmptyBlock ==
    LET NoLabel(label) ==
            \A i \in DOMAIN grid :
                grid[i] = <<>> \/ Lower(Strip(grid[i][1])) # Lower(label)
    IN  /\ (result.fn = "list_girls_teams"
             /\ NoLabel(GirlsLabelRow(grade)[1])) => result.out = Ok(<<>>)
        /\ (result.fn = "list_boys_teams" /\ grade # "5th"
             /\ NoLabel(BoysLabelRow(grade)[1])) => result.out = Ok(<<>>)

\* C9 (amended): for the block parsers that scan the grid for their label
\* (the girls block of the 3rd, 5th, 6th and 7/8 grade sheets), if no row
\* has the label text in its first cell, compared case-insensitively after
\* stripping, the block is empty and no error is raised.
C9_NoLabelEmptyScannedBlock ==
    LET NoLabel(label) ==
            \A i \in DOMAIN grid :
                grid[i] = <<>> \/ Lower(Strip(grid[i][1])) # Lower(label)
    IN  (result.fn = "list_girls_teams" /\ grade \in {"3rd", "5th", "6th", "7/8"}
         /\ NoLabel(GirlsLabelRow(grade)[1])) => result.out = Ok(<<>>)

\* a grid of header and data rows that has no girls label
C9_Witness ==
    /\ result.fn = "list_girls_teams"
    /\ grade \in {"3rd", "5th", "6th", "7/8"}
    /\ Len(grid) >= 3
    /\ \E i \in DOMAIN grid : grid[i] = HeaderRow
    /\ \E i \in DOMAIN grid : grid[i] \in {NamedRow, ShortRow}
    /\ \A i \in DOMAIN grid : grid[i] # GirlsLabelRow(grade)

-----------------------------------------------------------------------------
(* The "Form Responses 1" sheet: gateway fetch and cell parsers *)

\* SheetsClient.get_header_and_rows
get_header_and_rows(values) ==
    IF values = <<>> THEN [headers |-> <<>>, rows |-> <<>>]
    ELSE [headers |-> values[1],
          rows |-> MapSeq(Tail(values),
                          LAMBDA row : RowDict(values[1], row, Len(row)))]

\* _get_division_column
RECURSIVE get_division_column(_)
get_division_column(headers) ==
    IF headers = <<>> THEN None
    ELSE IF StartsWith(Head(headers), "Team Division(s)") THEN Head(headers)
    ELSE get_division_column(Tail(headers))

\* _parse_divisions without the final strip() of a part
parse_divisions_unstripped(raw_value) ==
    IF ~Truthy(raw_value) THEN <<>>
    ELSE SelectSeq(MapSeq(Split(Str(raw_value), ","),
                          LAMBDA part : Remove(Strip(part), "*WAITING LIST*")),
                   LAMBDA clean : clean # "")

\* _parse_divisions
parse_divisions(raw_value) ==
    IF ~Truthy(raw_value) THEN <<>>
    ELSE SelectSeq(MapSeq(Split(Str(raw_value), ","),
                          LAMBDA part :
                              Strip(Remove(Strip(part), "*WAITING LIST*"))),
                   LAMBDA clean : clean # "")

\* _is_waitlisted without the upper()
is_waitlisted_case_sensitive(raw_value) ==
    IF ~Truthy(raw_value) THEN FALSE
    ELSE Contains(Str(raw_value), "WAITING LIST")

\* _is_waitlisted
is_waitlisted(raw_value) ==
    IF ~Truthy(raw_value) THEN FALSE
    ELSE Contains(Upper(Str(raw_value)), "WAITING LIST")

\* an Optional[datetime] that is None
NoTime == <<>>

\* calendar.monthrange: the days of a month
DaysInMonth(year, month) ==
    IF month = 2
    THEN IF (year % 4 = 0 /\ year % 100 # 0) \/ year % 400 = 0 THEN 29 ELSE 28
    ELSE IF month \in {4, 6, 9, 11} THEN 30 ELSE 31

\* a strptime field: one or two digits (a leading zero allowed) that denote
\* a number of lo..hi; <<>> when the text is anything else
Field(text, lo, hi) ==
    IF AllDigits(text) /\ Len(text) <= 2 /\ NatOf(text) >= lo /\ NatOf(text) <= hi
    THEN <<NatOf(text)>> ELSE <<>>

\* datetime.strptime(value, "%m/%d/%Y %H:%M:%S") when with_seconds, else
\* datetime.strptime(value, "%m/%d/%Y %H:%M"): the datetime as
\* <<year, month, day, hour, minute, second>>, NoTime for the ValueError.
\* %d also takes a single digit after one space; the blank of the format
\* takes any run of whitespace.
strptime(value, with_seconds) ==
    LET date == Split(value, "/")
        month == Field(date[1], 1, 12)
        day == IF Len(date[2]) = 2 /\ Char(date[2], 1) = " "
               THEN Field(Char(date[2], 2), 1, 9)
               ELSE Field(date[2], 1, 31)
        year == SubSeq(date[3], 1, 4)
        rest == SubSeq(date[3], 5, Len(date[3]))
        time == Split(LStrip(rest), ":")
        hour == Field(time[1], 0, 23)
        minute == Field(time[2], 0, 59)
        second == IF with_seconds THEN Field(time[3], 0, 59) ELSE <<0>>
    IN  IF /\ Len(date) = 3
           /\ month # <<>> /\ day # <<>>
           /\ Len(date[3]) > 4 /\ AllDigits(year) /\ NatOf(year) >= 1
           /\ IsSpace(Char(rest, 1))
           /\ Len(time) = (IF with_seconds THEN 3 ELSE 2)
           /\ hour # <<>> /\ minute # <<>> /\ second # <<>>
           /\ day[1] <= DaysInMonth(NatOf(year), month[1])
        THEN <<NatOf(year), month[1], day[1], hour[1], minute[1], second[1]>>
        ELSE NoTime

\* _parse_timestamp
parse_timestamp(value) ==
    IF ~Truthy(value) THEN NoTime
    ELSE IF strptime(value, TRUE) # NoTime THEN strptime(value, TRUE)
    ELSE strptime(value, FALSE)

\* a < b on datetime
RECURSIVE TupleLess(_, _)
TupleLess(a, b) ==
    IF a = <<>> \/ b = <<>> THEN FALSE
    ELSE IF Head(a) = Head(b) THEN TupleLess(Tail(a), Tail(b))
    ELSE Head(a) < Head(b)

-----------------------------------------------------------------------------
(* The "Form Responses 1" sheet: queries *)

\* x in seq
In(x, seq) == \E i \in 1..Len(seq) : seq[i] = x

\* the elements of seq, each kept at its first occurrence
Dedupe(seq) ==
    LET RECURSIVE dedupe(_, _)
        dedupe(s, seen) ==
            IF s = <<>> THEN seen
            ELSE dedupe(Tail(s),
                        IF In(Head(s), seen) THEN seen ELSE Append(seen, Head(s)))
    IN  dedupe(seq, <<>>)

\* seq[:limit]
Slice(seq, limit) ==
    IF limit >= Len(seq) THEN seq
    ELSE IF limit >= 0 THEN SubSeq(seq, 1, limit)
    ELSE IF Len(seq) + limit > 0 THEN SubSeq(seq, 1, Len(seq) + limit)
    ELSE <<>>

\* the concatenation of the sequences of a sequence
RECURSIVE Flatten(_)
Flatten(seqs) == IF seqs = <<>> THEN <<>> ELSE Head(seqs) \o Flatten(Tail(seqs))

get_teams_by_division(division, include_waitlist, values) ==
    LET sheet == get_header_and_rows(values)
        division_col == get_division_column(sheet.headers)
    IN  IF ~Truthy(division_col) THEN <<>>
        ELSE MapSeq(
                SelectSeq(sheet.rows,
                    LAMBDA row :
                        /\ In(division, parse_divisions(Get(row, division_col)))
                        /\ ~(is_waitlisted(Get(row, division_col))
                             /\ ~include_waitlist)),
                LAMBDA row :
                    [team_name |-> Get(row, "Team Name"),
                     division |-> parse_divisions(Get(row, division_col)),
                     is_waitlist |-> is_waitlisted(Get(row, division_col)),
                     contact_first_name |-> Get(row, "Contact First Name"),
                     contact_last_name |-> Get(row, "Contact Last Name"),
                     contact_email |-> Get(row, "Email Address"),
                     contact_phone |-> Get(row, "Contact Phone"),
                     timestamp |-> Get(row, "Timestamp")])

get_waitlisted_teams(division, values) ==
    LET sheet == get_header_and_rows(values)
        division_col == get_division_column(sheet.headers)
    IN  IF ~Truthy(division_col) THEN <<>>
        ELSE MapSeq(
                SelectSeq(sheet.rows,
                    LAMBDA row :
                        /\ is_waitlisted(Get(row, division_col))
                        /\ ~(Truthy(division)
                             /\ ~In(division,
                                    parse_divisions(Get(row, division_col))))),
                LAMBDA row :
                    [team_name |-> Get(row, "Team Name"),
                     division |-> parse_divisions(Get(row, division_col)),
                     contact_first_name |-> Get(row, "Contact First Name"),
                     contact_last_name |-> Get(row, "Contact Last Name"),
                     contact_email |-> Get(row, "Email Address"),
                     contact_phone |-> Get(row, "Contact Phone"),
                     timestamp |-> Get(row, "Timestamp")])

\* the (division, waitlisted) pairs the loops of count_teams_by_division
\* visit, in order
DivisionOccurrences(values) ==
    LET sheet == get_header_and_rows(values)
        division_col == get_division_column(sheet.headers)
    IN  Flatten(MapSeq(sheet.rows,
            LAMBDA row :
                MapSeq(parse_divisions(Get(row, division_col)),
                       LAMBDA d : [division |-> d,
                                   waitlisted |->
                                       is_waitlisted(Get(row, division_col))])))

count_teams_by_division(include_waitlist, values) ==
    LET sheet == get_header_and_rows(values)
        division_col == get_division_column(sheet.headers)
        occurrences == DivisionOccurrences(values)
        Count(d, w) ==
            Len(SelectSeq(occurrences,
                          LAMBDA o : o.division = d /\ o.waitlisted = w))
    IN  IF ~Truthy(division_col) THEN <<>>
        ELSE MapSeq(
                StableSort(Dedupe(MapSeq(occurrences, LAMBDA o : o.division)),
                           StrLess),
                LAMBDA d :
                    [division |-> d,
                     confirmed |-> Count(d, FALSE),
                     waitlist |-> Count(d, TRUE),
                     total |-> Count(d, FALSE)
                               + (IF include_waitlist THEN Count(d, TRUE) ELSE 0)])

list_divisions(values) ==
    LET sheet == get_header_and_rows(values)
        division_col == get_division_column(sheet.headers)
    IN  IF ~Truthy(division_col) THEN <<>>
        ELSE StableSort(
                Dedupe(MapSeq(DivisionOccurrences(values), LAMBDA o : o.division)),
                StrLess)

\* key=lambda x: (x[0] is None, x[0]): the strict order of the keys
TimestampKeyLess(a, b) ==
    \/ a # NoTime /\ b = NoTime
    \/ a # NoTime /\ b # NoTime /\ TupleLess(a, b)

\* enriched.sort(key=..., reverse=True): descending, equal keys in sheet order
get_recent_registrations(limit, values) ==
    Slice(StableSort(get_header_and_rows(values).rows,
                     LAMBDA x, y :
                        TimestampKeyLess(parse_timestamp(Get(y, "Timestamp")),
                                         parse_timestamp(Get(x, "Timestamp")))),
          limit)

\* the headers that start with "I understand that" (_get_agreement_columns)
\* and the stripped cell of each
Agreements(headers, row) ==
    [col \in {headers[i] : i \in {k \in 1..Len(headers) :
                                    StartsWith(headers[k], "I understand that")}}
        |-> Strip(OrEmpty(Get(row, col)))]

get_team_details(team_name, exact, values) ==
    LET sheet == get_header_and_rows(values)
        division_col == get_division_column(sheet.headers)
        q == Lower(Strip(team_name))
        tn(row) == Strip(OrEmpty(Get(row, "Team Name")))
    IN  IF ~Truthy(division_col) THEN <<>>
        ELSE MapSeq(
                SelectSeq(sheet.rows,
                    LAMBDA row : IF exact THEN Lower(tn(row)) = q
                                 ELSE Contains(Lower(tn(row)), q)),
                LAMBDA row :
                    [team_name |-> OrNone(tn(row)),
                     divisions |-> parse_divisions(Get(row, division_col)),
                     is_waitlist |-> is_waitlisted(Get(row, division_col)),
                     contact_first_name |-> Get(row, "Contact First Name"),
                     contact_last_name |-> Get(row, "Contact Last Name"),
                     contact_email |-> Get(row, "Email Address"),
                     contact_phone |-> NormalizePhone(Get(row, "Contact Phone")),
                     timestamp |-> Get(row, "Timestamp"),
                     agreements |-> Agreements(sheet.headers, row)])

\* the filter of the get_candidate_* queries: first name, then last name and
\* e-mail when given
CandidateMatches(row, first_name, last_name, email) ==
    /\ Lower(Strip(OrEmpty(Get(row, "Contact First Name"))))
       = Lower(Strip(first_name))
    /\ Truthy(last_name) =>
            Lower(Strip(OrEmpty(Get(row, "Contact Last Name"))))
            = Lower(Strip(last_name))
    /\ Truthy(email) =>
            Lower(Strip(OrEmpty(Get(row, "Email Address"))))
            = Lower(Strip(email))

get_candidate_teams(first_name, last_name, email, values) ==
    LET sheet == get_header_and_rows(values)
        division_col == get_division_column(sheet.headers)
    IN  IF ~Truthy(division_col) THEN <<>>
        ELSE MapSeq(
                SelectSeq(sheet.rows,
                    LAMBDA row :
                        CandidateMatches(row, first_name, last_name, email)),
                LAMBDA row :
                    [team_name |-> Get(row, "Team Name"),
                     divisions |-> parse_divisions(Get(row, division_col)),
                     is_waitlist |-> is_waitlisted(Get(row, division_col)),
                     timestamp |-> Get(row, "Timestamp")])

get_candidate_profiles_by_name(first_name, last_name, values) ==
    LET sheet == get_header_and_rows(values)
        division_col == get_division_column(sheet.headers)
        fn(row) == Strip(OrEmpty(Get(row, "Contact First Name")))
        ln(row) == Strip(OrEmpty(Get(row, "Contact Last Name")))
        matches == SelectSeq(sheet.rows,
                      LAMBDA row :
                          CandidateMatches(row, first_name, last_name, None))
        keys == Dedupe(MapSeq(matches, LAMBDA row : <<fn(row), ln(row)>>))
        of(key) == SelectSeq(matches, LAMBDA row : <<fn(row), ln(row)>> = key)
    IN  IF ~Truthy(division_col) THEN <<>>
        ELSE MapSeq(keys,
                LAMBDA key :
                    [first_name |-> OrNone(key[1]),
                     last_name |-> OrNone(key[2]),
                     emails |->
                        Dedupe(SelectSeq(
                            MapSeq(of(key),
                                LAMBDA row :
                                    Strip(OrEmpty(Get(row, "Email Address")))),
                            LAMBDA e : e # "")),
                     phones |->
                        Dedupe(SelectSeq(
                            MapSeq(of(key),
                                LAMBDA row :
                                    NormalizePhone(Get(row, "Contact Phone"))),
                            LAMBDA p : p # None)),
                     teams |->
                        MapSeq(of(key),
                            LAMBDA row :
                                [team_name |-> Get(row, "Team Name"),
                                 divisions |->
                                    parse_divisions(Get(row, division_col)),
                                 is_waitlist |->
                                    is_waitlisted(Get(row, division_col)),
                                 timestamp |-> Get(row, "Timestamp")])])

\* get_<grade>_grade_team_registration_details validating after the fetch
get_team_registration_details_late(g, team_name, division, include_waitlist, values) ==
    IF Strip(division) \notin {BoysDivision(g), GirlsDivision(g)}
    THEN [out |-> Raise("ValueError"), fetches |-> 1]
    ELSE [out |-> Ok(SelectSeq(
                        get_teams_by_division(Strip(division), include_waitlist,
                                              values),
                        LAMBDA r : Lower(Strip(OrEmpty(r.team_name)))
                                   = Lower(Strip(team_name)))),
          fetches |-> 1]

\* get_<grade>_grade_team_registration_details, with the number of gateway
\* fetches the invocation issues
get_team_registration_details(g, team_name, division, include_waitlist, values) ==
    IF Strip(division) \notin {BoysDivision(g), GirlsDivision(g)}
    THEN [out |-> Raise("ValueError"), fetches |-> 0]
    ELSE [out |-> Ok(SelectSeq(
                        get_teams_by_division(Strip(division), include_waitlist,
                                              values),
                        LAMBDA r : Lower(Strip(OrEmpty(r.team_name)))
                                   = Lower(Strip(team_name)))),
          fetches |-> 1]

-----------------------------------------------------------------------------
(* The "Waitlist" sheet *)

\* _load_waitlist_sheet: the records of the rows below the header row (the
\* second row of the sheet), blank rows skipped
load_waitlist_sheet(values) ==
    IF Len(values) < 2 THEN <<>>
    ELSE MapSeq(RowsNotBlank(From(values, 2)),
                LAMBDA row : RowDict(values[2], row, Len(row)))

\* dict(row) with entry[key] = value
With(row, key, value) ==
    [k \in DOMAIN row \cup {key} |-> IF k = key THEN value ELSE row[k]]

\* whether get_waitlist_for_division keeps the row
InWaitlistDivision(row, division) ==
    /\ Strip(OrEmpty(Get(row, "Divison"))) # ""
    /\ Lower(Strip(OrEmpty(Get(row, "Divison")))) = Lower(Strip(division))

\* get_waitlist_for_division with pos incremented for every row of the sheet
get_waitlist_for_division_sheet_pos(division, values) ==
    LET rows == load_waitlist_sheet(values)
        RECURSIVE scan(_, _)
        scan(i, pos) ==
            IF i > Len(rows) THEN <<>>
            ELSE IF InWaitlistDivision(rows[i], division)
                 THEN <<With(rows[i], "position", pos + 1)>> \o scan(i + 1, pos + 1)
                 ELSE scan(i + 1, pos + 1)
    IN  scan(1, 0)

get_waitlist_for_division(division, values) ==
    LET rows == load_waitlist_sheet(values)
        RECURSIVE scan(_, _)
        scan(i, pos) ==
            IF i > Len(rows) THEN <<>>
            ELSE IF InWaitlistDivision(rows[i], division)
                 THEN <<With(rows[i], "position", pos + 1)>> \o scan(i + 1, pos + 1)
                 ELSE scan(i + 1, pos)
    IN  scan(1, 0)

\* the filter of is_candidate_on_any_waitlist: each query field that is
\* given must equal the stripped, lower-cased field of the entry
OnWaitlistMatches(fn, ln, em, first_name, last_name, email) ==
    /\ (Truthy(first_name) /\ Lower(Strip(first_name)) # "") =>
            Lower(Strip(first_name)) = Lower(Strip(OrEmpty(fn)))
    /\ (Truthy(last_name) /\ Lower(Strip(last_name)) # "") =>
            Lower(Strip(last_name)) = Lower(Strip(OrEmpty(ln)))
    /\ (Truthy(email) /\ Lower(Strip(email)) # "") =>
            Lower(Strip(email)) = Lower(Strip(OrEmpty(em)))

\* is_candidate_on_any_waitlist, with the number of gateway fetches the
\* invocation issues: list_divisions, get_waitlisted_teams per division and
\* the Waitlist sheet
is_candidate_on_any_waitlist(first_name, last_name, email, form_values, waitlist_values) ==
    IF ~(Truthy(first_name) \/ Truthy(last_name) \/ Truthy(email))
    THEN [out |-> Raise("ValueError"), fetches |-> 0]
    ELSE
    LET divisions == list_divisions(form_values)
        fr_matches ==
            Flatten(MapSeq(divisions,
                LAMBDA div :
                    MapSeq(
                        SelectSeq(get_waitlisted_teams(div, form_values),
                            LAMBDA e :
                                OnWaitlistMatches(e.contact_first_name,
                                                  e.contact_last_name,
                                                  e.contact_email,
                                                  first_name, last_name, email)),
                        LAMBDA e :
                            [division |-> div,
                             team_name |-> e.team_name,
                             contact_first_name |-> e.contact_first_name,
                             contact_last_name |-> e.contact_last_name,
                             email |-> e.contact_email,
                             phone |-> e.contact_phone])))
        wl_matches ==
            MapSeq(
                SelectSeq(load_waitlist_sheet(waitlist_values),
                    LAMBDA row :
                        OnWaitlistMatches(Get(row, "First Name"),
                                          Get(row, "Last Name"),
                                          Get(row, "Email"),
                                          first_name, last_name, email)),
                LAMBDA row :
                    [division |-> Get(row, "Divison"),
                     team_name |-> Get(row, "Team Name"),
                     first_name |-> Get(row, "First Name"),
                     last_name |-> Get(row, "Last Name"),
                     email |-> Get(row, "Email"),
                     phone |-> NormalizePhone(Get(row, "Phone")),
                     notes |-> Get(row, "Notes")])
    IN  [out |-> Ok([query |-> [first_name |-> first_name,
                                last_name |-> last_name,
                                email |-> email],
                     form_responses_matches |-> fr_matches,
                     waitlist_sheet_matches |-> wl_matches,
                     is_on_any_waitlist |-> fr_matches # <<>> \/ wl_matches # <<>>]),
         fetches |-> 1 + Len(divisions) + 1]

list_waitlist_divisions(values) ==
    StableSort(
        Dedupe(SelectSeq(MapSeq(load_waitlist_sheet(values),
                                LAMBDA row : Strip(OrEmpty(Get(row, "Divison")))),
                         LAMBDA div : div # "")),
        StrLess)

\* get_combined_waitlist_summary counting a team once when both sheets list it
get_combined_waitlist_summary_deduplicated(form_values, waitlist_values) ==
    LET all_divs ==
            StableSort(Dedupe(list_divisions(form_values)
                              \o list_waitlist_divisions(waitlist_values)),
                       StrLess)
    IN  MapSeq(all_divs,
            LAMBDA div :
                LET fr_entries == get_waitlisted_teams(div, form_values)
                    wl_entries == get_waitlist_for_division(div, waitlist_values)
                IN  [division |-> div,
                     form_responses_waitlist_count |-> Len(fr_entries),
                     manual_waitlist_count |-> Len(wl_entries),
                     combined_waitlist_count |->
                        Len(Dedupe(MapSeq(fr_entries, LAMBDA e : e.team_name)
                                   \o MapSeq(wl_entries,
                                             LAMBDA e : Get(e, "Team Name"))))])

get_combined_waitlist_summary(form_values, waitlist_values) ==
    LET all_divs ==
            StableSort(Dedupe(list_divisions(form_values)
                              \o list_waitlist_divisions(waitlist_values)),
                       StrLess)
    IN  MapSeq(all_divs,
            LAMBDA div :
                LET fr_count == Len(get_waitlisted_teams(div, form_values))
                    wl_count == Len(get_waitlist_for_division(div, waitlist_values))
                IN  [division |-> div,
                     form_responses_waitlist_count |-> fr_count,
                     manual_waitlist_count |-> wl_count,
                     combined_waitlist_count |-> fr_count + wl_count])

\* get_combined_waitlist_for_division appending the Waitlist sheet entries
\* before the Form Responses entries
get_combined_waitlist_for_division_sheet_first(division, form_values, waitlist_values) ==
    MapSeq(get_waitlist_for_division(division, waitlist_values),
           LAMBDA e : [source |-> "waitlist_sheet",
                       division |-> division,
                       team_name |-> Get(e, "Team Name"),
                       contact_first_name |-> Get(e, "First Name"),
                       contact_last_name |-> Get(e, "Last Name"),
                       email |-> Get(e, "Email"),
                       phone |-> NormalizePhone(Get(e, "Phone")),
                       position |-> SomeInt(e["position"]),
                       notes |-> Get(e, "Notes")])
    \o MapSeq(get_waitlisted_teams(division, form_values),
           LAMBDA row : [source |-> "form_responses",
                         division |-> division,
                         team_name |-> row.team_name,
                         contact_first_name |-> row.contact_first_name,
                         contact_last_name |-> row.contact_last_name,
                         email |-> row.contact_email,
                         phone |-> row.contact_phone,
                         position |-> NoInt,
                         notes |-> None])

get_combined_waitlist_for_division(division, form_values, waitlist_values) ==
    MapSeq(get_waitlisted_teams(division, form_values),
           LAMBDA row : [source |-> "form_responses",
                         division |-> division,
                         team_name |-> row.team_name,
                         contact_first_name |-> row.contact_first_name,
                         contact_last_name |-> row.contact_last_name,
                         email |-> row.contact_email,
                         phone |-> row.contact_phone,
                         position |-> NoInt,
                         notes |-> None])
    \o MapSeq(get_waitlist_for_division(division, waitlist_values),
           LAMBDA e : [source |-> "waitlist_sheet",
                       division |-> division,
                       team_name |-> Get(e, "Team Name"),
                       contact_first_name |-> Get(e, "First Name"),
                       contact_last_name |-> Get(e, "Last Name"),
                       email |-> Get(e, "Email"),
                       phone |-> NormalizePhone(Get(e, "Phone")),
                       position |-> SomeInt(e["position"]),
                       notes |-> Get(e, "Notes")])

-----------------------------------------------------------------------------
(* The "Count" sheet *)

\* _is_division_row
is_division_row(row) ==
    /\ Strip(OrEmpty(Get(row, "Division"))) # ""
    /\ Strip(OrEmpty(Get(row, "Division"))) \notin {"Total Teams", "Revenue"}

\* list_division_summaries testing the Needed text without lower()
list_division_summaries_case_sensitive(values) ==
    MapSeq(SelectSeq(get_header_and_rows(values).rows, is_division_row),
        LAMBDA row :
            [division |-> Strip(OrEmpty(Get(row, "Division"))),
             teams |-> ParseInt(Get(row, "# of Teams")),
             needed_raw |-> Get(row, "Needed"),
             needed |-> ParseInt(Get(row, "Needed")),
             needed_is_waitlist |->
                /\ Get(row, "Needed") # None
                /\ Contains(Get(row, "Needed"), "wait list"),
             host_teams |-> ParseInt(Get(row, "Host Teams")),
             is_full |-> Upper(Strip(OrEmpty(Get(row, "Unnamed: 4")))) = "FULL"])

list_division_summaries(values) ==
    MapSeq(SelectSeq(get_header_and_rows(values).rows, is_division_row),
        LAMBDA row :
            [division |-> Strip(OrEmpty(Get(row, "Division"))),
             teams |-> ParseInt(Get(row, "# of Teams")),
             needed_raw |-> Get(row, "Needed"),
             needed |-> ParseInt(Get(row, "Needed")),
             needed_is_waitlist |->
                /\ Get(row, "Needed") # None
                /\ Contains(Lower(Get(row, "Needed")), "wait list"),
             host_teams |-> ParseInt(Get(row, "Host Teams")),
             is_full |-> Upper(Strip(OrEmpty(Get(row, "Unnamed: 4")))) = "FULL"])

\* the value of the last entry of seq whose key is k, NoInt if there is none
\* ({key: value for ...}.get(k))
LastOf(seq, k, Key(_), Value(_)) ==
    LET hits == SelectSeq(seq, LAMBDA e : Key(e) = k)
    IN  IF hits = <<>> THEN NoInt ELSE Value(hits[Len(hits)])

\* compare_division_team_counts_with_registrations taking the difference
\* from the total (confirmed and waitlisted) registrations
compare_division_team_counts_with_total(count_values, form_values) ==
    LET summaries == list_division_summaries(count_values)
        fr_counts == count_teams_by_division(TRUE, form_values)
        all_divisions ==
            StableSort(Dedupe(MapSeq(summaries, LAMBDA s : s.division)
                              \o MapSeq(fr_counts, LAMBDA c : c.division)),
                       StrLess)
    IN  MapSeq(all_divisions,
            LAMBDA div :
                LET sheet_count ==
                        LastOf(summaries, div, LAMBDA s : s.division,
                               LAMBDA s : IF s.teams = NoInt THEN <<0>> ELSE s.teams)
                    confirmed ==
                        LastOf(fr_counts, div, LAMBDA c : c.division,
                               LAMBDA c : <<c.total>>)
                    waiting ==
                        LastOf(fr_counts, div, LAMBDA c : c.division,
                               LAMBDA c : <<c.waitlist>>)
                IN  [division |-> div,
                     count_sheet_teams |-> sheet_count,
                     form_responses_teams_confirmed |-> confirmed,
                     form_responses_teams_waitlist |-> waiting,
                     difference |->
                        IF sheet_count # NoInt /\ confirmed # NoInt
                        THEN <<sheet_count[1] - confirmed[1]>> ELSE NoInt])

compare_division_team_counts_with_registrations(count_values, form_values) ==
    LET summaries == list_division_summaries(count_values)
        fr_counts == count_teams_by_division(TRUE, form_values)
        all_divisions ==
            StableSort(Dedupe(MapSeq(summaries, LAMBDA s : s.division)
                              \o MapSeq(fr_counts, LAMBDA c : c.division)),
                       StrLess)
    IN  MapSeq(all_divisions,
            LAMBDA div :
                LET sheet_count ==
                        LastOf(summaries, div, LAMBDA s : s.division,
                               LAMBDA s : IF s.teams = NoInt THEN <<0>> ELSE s.teams)
                    confirmed ==
                        LastOf(fr_counts, div, LAMBDA c : c.division,
                               LAMBDA c : <<c.confirmed>>)
                    waiting ==
                        LastOf(fr_counts, div, LAMBDA c : c.division,
                               LAMBDA c : <<c.waitlist>>)
                IN  [division |-> div,
                     count_sheet_teams |-> sheet_count,
                     form_responses_teams_confirmed |-> confirmed,
                     form_responses_teams_waitlist |-> waiting,
                     difference |->
                        IF sheet_count # NoInt /\ confirmed # NoInt
                        THEN <<sheet_count[1] - confirmed[1]>> ELSE NoInt])

-----------------------------------------------------------------------------
(* Contents of the registration, waitlist and count sheets the model draws  *)
(* from                                                                     *)

FormsHeader ==
    <<"Timestamp", "Email Address", "Team Name", "Team Division(s) (select all)",
      "Contact First Name", "Contact Last Name", "Contact Phone">>

\* the registrations while the Waitlist sheet is edited: two waitlisted
\* teams and a confirmed one
WaitlistedForms ==
    <<FormsHeader,
      <<"1/6/2025 8:00", "al@x.org", "Hawks", "3rd Boys, *WAITING LIST*",
        "Al", "Lee", "(573) 230-8287">>,
      <<"1/6/2025 8:05", "bo@x.org", "Owls", "4th Girls *WAITING LIST*, 3rd Boys",
        "Bo", "Ray", "5732308288">>,
      <<"12/31/2024 23:59:59", "cy@x.org", "Jets", "3rd Boys", "Cy", "Poe">>>>

\* rows a form submission or a hand edit may append to Form Responses 1
FormRows ==
    {<<"1/5/2025 9:30:00", "al@x.org", "Hawks", "3rd Boys",
       "Al", "Lee", "(573) 230-8287">>,
     <<"1/5/2025 10:15", "bo@x.org", "Owls", "3rd Boys, *WAITING LIST*",
       "Bo", "Ray", "5732308288">>,
     <<"12/31/2024 23:59:59", " AL@x.org", "Jets", "4th Girls, 3rd Boys",
       " al ", "Lee">>,
     <<"", "cy@x.org", "Rams", "3rd Boys *waiting list*", "Cy", "Poe", "n/a">>,
     <<"n/a", "bo@x.org", "Shawks", " *WAITING LIST* 4th Girls, ,",
       "Bo", "Ray", "573-230-8288">>,
     <<"1/5/2025 9:30:00", "di@x.org">>}

\* registrations made while the Count sheet is checked
Registrations ==
    {<<"1/5/2025 9:30:00", "al@x.org", "Hawks", "3rd Boys",
       "Al", "Lee", "(573) 230-8287">>,
     <<"1/5/2025 10:15", "bo@x.org", "Owls", "3rd Boys, *WAITING LIST*",
       "Bo", "Ray", "5732308288">>,
     <<"1/6/2025 8:00", "ed@x.org", "Aces", "5th Girls,5th Girls, 3rd Boys",
       "Ed", "Kim", "1">>}

WaitlistTitleRow == <<"Waiting List Teams">>

WaitlistHeader ==
    <<"Email", "First Name", "Last Name", "Phone", "Divison", "Team Name", "Notes">>

\* rows an edit may append to the Waitlist sheet
WaitlistRows ==
    {<<"al@x.org", "Al", "Lee", "(573) 230-8287", "3rd Boys", "Hawks", "paid">>,
     <<"bo@x.org", "Bo", "Ray", "", "4th Girls", "Owls">>,
     <<"cy@x.org", "Cy", "Poe", "1", " 3rd boys ", "Rams">>,
     <<"di@x.org", "Di", "Fox", "2", "", "Jets">>,
     <<"ed@x.org", "Ed">>,
     <<"", " ">>}

\* the Waitlist sheet while the registration queries are checked
WaitlistSample ==
    <<WaitlistTitleRow, WaitlistHeader,
      <<"al@x.org", "Al", "Lee", "(573) 230-8287", "3rd Boys", "Hawks", "paid">>,
      <<"bo@x.org", "Bo", "Ray", "", "4th Girls", "Owls">>>>

CountHeader == <<"Division", "# of Teams", "Needed", "Host Teams", "Unnamed: 4">>

\* rows an edit may append to the Count sheet
CountRows ==
    {<<"3rd Boys", "10", "Wait List", "5", "FULL">>,
     <<" 3rd Boys ", "1,2">>,
     <<"4th Girls", "n/a", "2">>,
     <<"Total Teams", "30">>,
     <<"", "7">>}

-----------------------------------------------------------------------------
(* The Form Responses sheet and its queries as a state machine *)

InitForms ==
    /\ grade = "3rd"
    /\ grid = <<>>
    /\ forms \in {<<>>, <<FormsHeader>>}
    /\ waitlist = WaitlistSample
    /\ count = <<>>
    /\ edits = 0
    /\ result = NoResult
    /\ fetches = 0
    /\ previous = NoResult
    /\ InitBackend

\* a form submission or a hand edit: one more row
AppendFormRow ==
    /\ result = NoResult
    /\ edits < MaxForms
    /\ \E r \in FormRows : forms' = Append(forms, r)
    /\ edits' = edits + 1
    /\ UNCHANGED <<backend, grade, grid, waitlist, count, result, fetches,
                   previous>>

CallGetTeamsByDivision ==
    /\ result = NoResult
    /\ \E division \in {"3rd Boys", "4th Girls"}, include_waitlist \in BOOLEAN :
        result' = [fn |-> "get_teams_by_division",
                   args |-> <<division, include_waitlist>>,
                   out |-> Fetched(<<"Form Responses 1">>,
                                   Ok(get_teams_by_division(division, include_waitlist,
                                                    forms)))]
    /\ fetches' = Issued(<<"Form Responses 1">>)
    /\ UNCHANGED <<backend, grade, grid, forms, waitlist, count, edits,
                   previous>>

CallGetWaitlistedTeams ==
    /\ result = NoResult
    /\ \E division \in {None, "", "3rd Boys"} :
        result' = [fn |-> "get_waitlisted_teams",
                   args |-> <<division>>,
                   out |-> Fetched(<<"Form Responses 1">>,
                                   Ok(get_waitlisted_teams(division, forms)))]
    /\ fetches' = Issued(<<"Form Responses 1">>)
    /\ UNCHANGED <<backend, grade, grid, forms, waitlist, count, edits,
                   previous>>

CallGetRecentRegistrations ==
    /\ result = NoResult
    /\ \E limit \in {-1, 0, 1, 2, 10} :
        result' = [fn |-> "get_recent_registrations",
                   args |-> <<limit>>,
                   out |-> Fetched(<<"Form Responses 1">>,
                                   Ok(get_recent_registrations(limit, forms)))]
    /\ fetches' = Issued(<<"Form Responses 1">>)
    /\ UNCHANGED <<backend, grade, grid, forms, waitlist, count, edits,
                   previous>>

CallGetTeamDetails ==
    /\ result = NoResult
    /\ \E team_name \in {"hawks", " S "}, exact \in BOOLEAN :
        result' = [fn |-> "get_team_details",
                   args |-> <<team_name, exact>>,
                   out |-> Fetched(<<"Form Responses 1">>,
                                   Ok(get_team_details(team_name, exact, forms)))]
    /\ fetches' = Issued(<<"Form Responses 1">>)
    /\ UNCHANGED <<backend, grade, grid, forms, waitlist, count, edits,
                   previous>>

CallGetCandidateTeams ==
    /\ result = NoResult
    /\ \E first_name \in {"al", "Bo "}, last_name \in {None, "lee "},
          email \in {None, "AL@x.org"} :
        result' = [fn |-> "get_candidate_teams",
                   args |-> <<first_name, last_name, email>>,
                   out |-> Fetched(<<"Form Responses 1">>,
                                   Ok(get_candidate_teams(first_name, last_name, email,
                                                  forms)))]
    /\ fetches' = Issued(<<"Form Responses 1">>)
    /\ UNCHANGED <<backend, grade, grid, forms, waitlist, count, edits,
                   previous>>

CallGetCandidateProfilesByName ==
    /\ result = NoResult
    /\ \E first_name \in {"al", "Bo "}, last_name \in {None, "Ray", "lee"} :
        result' = [fn |-> "get_candidate_profiles_by_name",
                   args |-> <<first_name, last_name>>,
                   out |-> Fetched(<<"Form Responses 1">>,
                                   Ok(get_candidate_profiles_by_name(first_name,
                                                             last_name, forms)))]
    /\ fetches' = Issued(<<"Form Responses 1">>)
    /\ UNCHANGED <<backend, grade, grid, forms, waitlist, count, edits,
                   previous>>

CallGetTeamRegistrationDetails ==
    /\ result = NoResult
    /\ \E g \in Grades, team_name \in {" hawks"},
          division \in {" 3rd Boys ", "4th Girls", "4th girls", ""},
          include_waitlist \in {TRUE} :
        LET call == get_team_registration_details(g, team_name, division,
                                                  include_waitlist, forms)
            sheets == [i \in 1..call.fetches |-> "Form Responses 1"]
        IN  /\ result' = [fn |-> "get_team_registration_details",
                          args |-> <<g, team_name, division, include_waitlist>>,
                          out |-> Fetched(sheets, call.out)]
            /\ fetches' = Issued(sheets)
    /\ UNCHANGED <<backend, grade, grid, forms, waitlist, count, edits,
                   previous>>

CallIsCandidateOnAnyWaitlist ==
    /\ result = NoResult
    /\ \E query \in {<<None, None, None>>, <<"", None, "">>,
                     <<"bo", None, None>>, <<" ", "Lee", "al@x.org">>} :
        LET call == is_candidate_on_any_waitlist(query[1], query[2], query[3],
                                                 forms, waitlist)
            sheets == [i \in 1..call.fetches |->
                          IF i < call.fetches THEN "Form Responses 1"
                          ELSE "Waitlist"]
        IN  /\ result' = [fn |-> "is_candidate_on_any_waitlist",
                          args |-> query,
                          out |-> Fetched(sheets, call.out)]
            /\ fetches' = Issued(sheets)
    /\ UNCHANGED <<backend, grade, grid, forms, waitlist, count, edits,
                   previous>>

NextForms ==
    \/ AppendFormRow
    \/ Return
    \/ CallGetTeamsByDivision
    \/ CallGetWaitlistedTeams
    \/ CallGetRecentRegistrations
    \/ CallGetTeamDetails
    \/ CallGetCandidateTeams
    \/ CallGetCandidateProfilesByName
    \/ CallGetTeamRegistrationDetails
    \/ CallIsCandidateOnAnyWaitlist

SpecForms == InitForms /\ [][NextForms]_vars

-----------------------------------------------------------------------------
(* The Waitlist sheet and its query as a state machine *)

InitWaitlist ==
    /\ grade = "3rd"
    /\ grid = <<>>
    /\ forms = <<>>
    /\ waitlist \in {<<>>, <<WaitlistTitleRow, WaitlistHeader>>}
    /\ count = <<>>
    /\ edits = 0
    /\ result = NoResult
    /\ fetches = 0
    /\ previous = NoResult
    /\ InitBackend

\* a person edits the Waitlist sheet: one more row
AppendWaitlistRow ==
    /\ result = NoResult
    /\ edits < MaxWaitlist
    /\ \E r \in WaitlistRows : waitlist' = Append(waitlist, r)
    /\ edits' = edits + 1
    /\ previous' = NoResult
    /\ UNCHANGED <<backend, grade, grid, forms, count, result, fetches>>

CallGetWaitlistForDivision ==
    /\ result = NoResult
    /\ \E division \in {"3rd Boys", "4th girls ", ""} :
        result' = [fn |-> "get_waitlist_for_division",
                   args |-> <<division>>,
                   out |-> Fetched(<<"Waitlist">>,
                                   Ok(get_waitlist_for_division(division, waitlist)))]
    /\ fetches' = Issued(<<"Waitlist">>)
    /\ UNCHANGED <<backend, grade, grid, forms, waitlist, count, edits,
                   previous>>

CallGetCombinedWaitlistSummary ==
    /\ result = NoResult
    /\ LET summary == get_combined_waitlist_summary(forms, waitlist)
           sheets == [i \in 1..(2 + 2 * Len(summary)) |->
                         IF i % 2 = 1 THEN "Form Responses 1" ELSE "Waitlist"]
       IN  /\ result' = [fn |-> "get_combined_waitlist_summary", args |-> <<>>,
                         out |-> Fetched(sheets, Ok(summary))]
           /\ fetches' = Issued(sheets)
    /\ UNCHANGED <<backend, grade, grid, forms, waitlist, count, edits,
                   previous>>

CallGetCombinedWaitlistForDivision ==
    /\ result = NoResult
    /\ \E division \in {"3rd Boys", "4th Girls", " 3rd boys "} :
        result' = [fn |-> "get_combined_waitlist_for_division",
                   args |-> <<division>>,
                   out |-> Fetched(<<"Form Responses 1", "Waitlist">>,
                                   Ok(get_combined_waitlist_for_division(
                                division, forms, waitlist)))]
    /\ fetches' = Issued(<<"Form Responses 1", "Waitlist">>)
    /\ UNCHANGED <<backend, grade, grid, forms, waitlist, count, edits,
                   previous>>

\* the invocation ends; the caller keeps what it returned
ReturnAndKeep ==
    /\ result # NoResult
    /\ previous' = result
    /\ result' = NoResult
    /\ fetches' = 0
    /\ UNCHANGED <<backend, grade, grid, forms, waitlist, count, edits>>

NextWaitlist ==
    \/ AppendWaitlistRow
    \/ CallGetWaitlistForDivision
    \/ ReturnAndKeep

SpecWaitlist == InitWaitlist /\ [][NextWaitlist]_vars

\* the combined views of the Waitlist sheet and the waitlisted registrations
InitCombined ==
    /\ grade = "3rd"
    /\ grid = <<>>
    /\ forms = WaitlistedForms
    /\ waitlist \in {<<>>, <<WaitlistTitleRow, WaitlistHeader>>}
    /\ count = <<>>
    /\ edits = 0
    /\ result = NoResult
    /\ fetches = 0
    /\ previous = NoResult
    /\ InitBackend

NextCombined ==
    \/ AppendWaitlistRow
    \/ Return
    \/ CallGetWaitlistForDivision
    \/ CallGetCombinedWaitlistSummary
    \/ CallGetCombinedWaitlistForDivision

SpecCombined == InitCombined /\ [][NextCombined]_vars

-----------------------------------------------------------------------------
(* The Count sheet and its reconciliation with the registrations as a state *)
(* machine                                                                  *)

InitCount ==
    /\ grade = "3rd"
    /\ grid = <<>>
    /\ forms = <<FormsHeader>>
    /\ waitlist = <<>>
    /\ count \in {<<>>, <<CountHeader>>}
    /\ edits = 0
    /\ result = NoResult
    /\ fetches = 0
    /\ previous = NoResult
    /\ InitBackend

\* a person edits the Count sheet: one more row below the header row
AppendCountRow ==
    /\ result = NoResult
    /\ count # <<>>
    /\ Len(count) <= MaxCount
    /\ \E r \in CountRows : count' = Append(count, r)
    /\ edits' = edits + 1
    /\ UNCHANGED <<backend, grade, grid, forms, waitlist, result, fetches,
                   previous>>

\* a team registers: one more row of Form Responses 1
RegisterTeam ==
    /\ result = NoResult
    /\ Len(forms) <= MaxRegistrations
    /\ \E r \in Registrations : forms' = Append(forms, r)
    /\ edits' = edits + 1
    /\ UNCHANGED <<backend, grade, grid, waitlist, count, result, fetches,
                   previous>>

CallListDivisionSummaries ==
    /\ result = NoResult
    /\ result' = [fn |-> "list_division_summaries", args |-> <<>>,
                  out |-> Fetched(<<"Count">>,
                                  Ok(list_division_summaries(count)))]
    /\ fetches' = Issued(<<"Count">>)
    /\ UNCHANGED <<backend, grade, grid, forms, waitlist, count, edits,
                   previous>>

CallCountTeamsByDivision ==
    /\ result = NoResult
    /\ \E include_waitlist \in BOOLEAN :
        result' = [fn |-> "count_teams_by_division",
                   args |-> <<include_waitlist>>,
                   out |-> Fetched(<<"Form Responses 1">>,
                                   Ok(count_teams_by_division(include_waitlist, forms)))]
    /\ fetches' = Issued(<<"Form Responses 1">>)
    /\ UNCHANGED <<backend, grade, grid, forms, waitlist, count, edits,
                   previous>>

CallCompareDivisionTeamCounts ==
    /\ result = NoResult
    /\ result' = [fn |-> "compare_division_team_counts_with_registrations",
                  args |-> <<>>,
                  out |-> Fetched(<<"Count", "Form Responses 1">>,
                                  Ok(compare_division_team_counts_with_registrations(
                                count, forms)))]
    /\ fetches' = Issued(<<"Count", "Form Responses 1">>)
    /\ UNCHANGED <<backend, grade, grid, forms, waitlist, count, edits,
                   previous>>

NextCount ==
    \/ AppendCountRow
    \/ RegisterTeam
    \/ Return
    \/ CallListDivisionSummaries
    \/ CallCountTeamsByDivision
    \/ CallCompareDivisionTeamCounts

SpecCount == InitCount /\ [][NextCount]_vars

-----------------------------------------------------------------------------
(* Properties of the Waitlist sheet query *)

\* C2: the positions get_waitlist_for_division(d) returns are 1, 2, ..., n in
\* sheet row order among the entries of division d, and a second call with
\* the same argument on the unchanged sheet returns the same entries with the
\* same positions in the same order.
C2_PositionsContiguousAndStable ==
    result.fn = "get_waitlist_for_division" =>
        LET entries == result.out.value
            d == Lower(Strip(result.args[1]))
            OfDivision(row) ==
                /\ "Divison" \in DOMAIN row
                /\ row["Divison"] # None
                /\ Strip(row["Divison"]) # ""
                /\ Lower(Strip(row["Divison"])) = d
            Without(entry, key) == [k \in DOMAIN entry \ {key} |-> entry[k]]
        IN  /\ \A i \in 1..Len(entries) : entries[i]["position"] = i
            /\ MapSeq(entries, LAMBDA e : Without(e, "position"))
               = SelectSeq(load_waitlist_sheet(waitlist), OfDivision)
            /\ (previous.fn = result.fn /\ previous.args = result.args) =>
                    previous.out = result.out

\* a second call returns two entries of a division whose rows are not adjacent
C2_Witness ==
    /\ result.fn = "get_waitlist_for_division"
    /\ previous.fn = result.fn
    /\ previous.args = result.args
    /\ Len(result.out.value) >= 2
    /\ Len(load_waitlist_sheet(waitlist)) > Len(result.out.value)
    /\ \E i \in DOMAIN waitlist :
            /\ i > 2 /\ i < Len(waitlist)
            /\ Len(waitlist[i]) >= 5
            /\ Lower(Strip(waitlist[i][5])) # Lower(Strip(result.args[1]))

-----------------------------------------------------------------------------
(* Properties of the Count sheet reconciliation *)

-----------------------------------------------------------------------------
(* Properties of the Form Responses queries *)

\* C4: the waitlist flag a query reports for a registration row (is_waitlist
\* of get_teams_by_division, get_team_details, get_candidate_teams and
\* get_candidate_profiles_by_name; membership in get_waitlisted_teams) is
\* true if and only if the upper-cased text of the row's raw division cell
\* contains "WAITING LIST", whichever division the row was found by.  The
\* rows of the model are told apart by their team name.
C4_WaitlistFlag ==
    LET sheet == get_header_and_rows(forms)
        col == get_division_column(sheet.headers)
        Flag(row) ==
            /\ Get(row, col) # None
            /\ Contains(Upper(Get(row, col)), "WAITING LIST")
        Name(x) == OrNone(Strip(OrEmpty(x)))
        Agrees(team_name, is_waitlist) ==
            /\ \E i \in 1..Len(sheet.rows) :
                    Name(Get(sheet.rows[i], "Team Name")) = Name(team_name)
            /\ \A i \in 1..Len(sheet.rows) :
                    Name(Get(sheet.rows[i], "Team Name")) = Name(team_name) =>
                        (is_waitlist <=> Flag(sheet.rows[i]))
        entries == result.out.value
    IN  /\ result.fn \in {"get_teams_by_division", "get_team_details",
                          "get_candidate_teams"} =>
                \A i \in 1..Len(entries) :
                    Agrees(entries[i].team_name, entries[i].is_waitlist)
        /\ result.fn = "get_candidate_profiles_by_name" =>
                \A i \in 1..Len(entries) :
                    \A j \in 1..Len(entries[i].teams) :
                        Agrees(entries[i].teams[j].team_name,
                               entries[i].teams[j].is_waitlist)
        /\ result.fn = "get_waitlisted_teams" =>
                MapSeq(entries, LAMBDA e : e.team_name)
                = MapSeq(SelectSeq(sheet.rows,
                            LAMBDA row :
                                /\ Flag(row)
                                /\ Truthy(result.args[1]) =>
                                        In(result.args[1],
                                           parse_divisions(Get(row, col)))),
                         LAMBDA row : Get(row, "Team Name"))

\* a team query reports a waitlisted row, marked in lower case, next to a
\* confirmed one
C4_Witness ==
    /\ result.fn = "get_team_details"
    /\ \E i, j \in 1..Len(result.out.value) :
            /\ result.out.value[i].is_waitlist
            /\ result.out.value[i].team_name = "Rams"
            /\ ~result.out.value[j].is_waitlist

\* C5: the division list a query reports for a registration row is the
\* division cell split on commas, each part stripped of the "*WAITING LIST*"
\* marker and of surrounding whitespace, the parts that are empty afterwards
\* discarded; the cell "3rd Boys, *WAITING LIST*" yields <<"3rd Boys">> and
\* the waitlist flag TRUE.
C5_DivisionList ==
    result.fn \in {"get_team_details", "get_candidate_teams"} =>
        LET sheet == get_header_and_rows(forms)
            col == get_division_column(sheet.headers)
            Name(x) == OrNone(Strip(OrEmpty(x)))
            RECURSIVE Parts(_)
            Parts(parts) ==
                IF parts = <<>> THEN <<>>
                ELSE LET clean ==
                            Strip(Remove(Strip(Head(parts)), "*WAITING LIST*"))
                     IN  (IF clean = "" THEN <<>> ELSE <<clean>>)
                         \o Parts(Tail(parts))
            Expected(cell) ==
                IF cell = None THEN <<>> ELSE Parts(Split(cell, ","))
        IN  \A i \in 1..Len(result.out.value) :
                LET e == result.out.value[i]
                IN  /\ \A k \in 1..Len(sheet.rows) :
                            Name(Get(sheet.rows[k], "Team Name")) = Name(e.team_name)
                            => /\ e.divisions = Expected(Get(sheet.rows[k], col))
                               /\ Get(sheet.rows[k], col) = "3rd Boys, *WAITING LIST*"
                                    => /\ e.divisions = <<"3rd Boys">>
                                       /\ e.is_waitlist
                    /\ \A j \in 1..Len(e.divisions) :
                            /\ e.divisions[j] # ""
                            /\ Strip(e.divisions[j]) = e.divisions[j]
                            /\ ~Contains(e.divisions[j], ",")

\* the row of the scenario and a row whose marker is followed by a division
C5_Witness ==
    /\ result.fn = "get_team_details"
    /\ \E i, j \in 1..Len(result.out.value) :
            /\ result.out.value[i].team_name = "Owls"
            /\ result.out.value[i].divisions = <<"3rd Boys">>
            /\ result.out.value[i].is_waitlist
            /\ result.out.value[j].team_name = "Shawks"
            /\ result.out.value[j].divisions = <<"4th Girls">>

\* C7: get_<grade>_grade_team_registration_details given a division that is
\* neither "<grade> Boys" nor "<grade> Girls" after stripping, and
\* is_candidate_on_any_waitlist given no first name, last name or e-mail,
\* raise ValueError, and the invocation issues no gateway fetch.
C7_RejectedBeforeFetch ==
    /\ (/\ result.fn = "get_team_registration_details"
        /\ Strip(result.args[3]) \notin {result.args[1] \o " Boys",
                                         result.args[1] \o " Girls"})
            => result.out.status = "ValueError" /\ fetches = 0
    /\ (/\ result.fn = "is_candidate_on_any_waitlist"
        /\ \A k \in 1..3 : result.args[k] \in {None, ""})
            => result.out.status = "ValueError" /\ fetches = 0
    /\ result.out.status = "ValueError" => fetches = 0

\* a division of another grade is rejected while the sheet has registrations
C7_Witness ==
    /\ result.fn = "get_team_registration_details"
    /\ result.args[1] = "5th"
    /\ result.args[3] = "4th Girls"
    /\ result.out.status = "ValueError"
    /\ Len(forms) > 1

\* C10 (as stated): get_recent_registrations(limit) returns the first limit
\* rows of the sheet's rows ordered by parsed timestamp from newest to
\* oldest, the rows whose timestamp is absent or unparseable last.
C10_NewestFirstUnparseableLast ==
    (result.fn = "get_recent_registrations" /\ result.args[1] >= 0) =>
        LET rows == get_header_and_rows(forms).rows
            Time(row) == parse_timestamp(Get(row, "Timestamp"))
            Before(a, b) ==
                \/ a # NoTime /\ b = NoTime
                \/ a # NoTime /\ b # NoTime /\ TupleLess(b, a)
            expected == StableSort(MapSeq(rows, Time), Before)
        IN  /\ MapSeq(result.out.value, Time)
               = SubSeq(expected, 1,
                        IF result.args[1] < Len(rows) THEN result.args[1]
                        ELSE Len(rows))
            /\ \A i \in 1..Len(result.out.value) : In(result.out.value[i], rows)

-----------------------------------------------------------------------------
(* The "Count" sheet: summaries of one division and filtered lists *)

MaxSummaryRows == 3

\* Optional[dict]
NoRecord == <<>>

\* get_division_summary: the first row whose Division is the queried one,
\* case ignored; the row is not tested with _is_division_row
get_division_summary(division, values) ==
    LET results ==
            MapSeq(SelectSeq(get_header_and_rows(values).rows,
                             LAMBDA row :
                                Lower(Strip(OrEmpty(Get(row, "Division"))))
                                    = Lower(Strip(division))),
                LAMBDA row :
                    [division |-> Strip(OrEmpty(Get(row, "Division"))),
                     teams |-> ParseInt(Get(row, "# of Teams")),
                     needed_raw |-> Get(row, "Needed"),
                     needed |-> ParseInt(Get(row, "Needed")),
                     needed_is_waitlist |->
                        /\ Get(row, "Needed") # None
                        /\ Contains(Lower(Get(row, "Needed")), "wait list"),
                     host_teams |-> ParseInt(Get(row, "Host Teams")),
                     is_full |->
                        Upper(Strip(OrEmpty(Get(row, "Unnamed: 4")))) = "FULL"])
    IN  IF results = <<>> THEN NoRecord ELSE <<results[1]>>

list_full_divisions(values) ==
    MapSeq(SelectSeq(list_division_summaries(values), LAMBDA s : s.is_full),
           LAMBDA s : s.division)

list_divisions_with_waitlist(values) ==
    MapSeq(SelectSeq(list_division_summaries(values),
                     LAMBDA s : s.needed_is_waitlist),
           LAMBDA s : s.division)

\* key=lambda x: x["needed"], reverse=True
NeededMore(x, y) == x.needed[1] > y.needed[1]

list_divisions_still_needing_teams(values) ==
    StableSort(
        MapSeq(SelectSeq(list_division_summaries(values),
                         LAMBDA s : s.needed # NoInt /\ s.needed[1] > 0),
               LAMBDA s : [division |-> s.division,
                           teams |-> s.teams,
                           needed |-> s.needed,
                           host_teams |-> s.host_teams]),
        NeededMore)

\* rows an edit may append to the Count sheet while the summaries are checked
SummaryRows ==
    {<<"3rd Boys", "10", "Wait List", "5", "FULL">>,
     <<"4th Girls", "n/a", "2", "", " full ">>,
     <<" 5th Boys ", "1,2", "5", "x">>,
     <<"3rd boys", "7", "on wait list", "0", "Full house">>,
     <<"Total Teams", "30", "Total Host Teams", "4">>,
     <<"Revenue", "", "$1,000", "$200", "$1,200">>,
     <<"", "7">>}

\* the registrations while the summaries are checked
SummaryForms ==
    <<FormsHeader,
      <<"1/5/2025 9:30:00", "al@x.org", "Hawks", "3rd Boys",
        "Al", "Lee", "(573) 230-8287">>,
      <<"1/5/2025 10:15", "bo@x.org", "Owls", "4th Girls, *WAITING LIST*",
        "Bo", "Ray", "5732308288">>>>

\* division names a caller asks get_division_summary for
SummaryQueries == {"3rd Boys", " 4th girls", "total teams", "Revenue", "6th Boys"}

InitSummary ==
    /\ grade = "3rd"
    /\ grid = <<>>
    /\ forms = SummaryForms
    /\ waitlist = <<>>
    /\ count \in {<<>>, <<CountHeader>>}
    /\ edits = 0
    /\ result = NoResult
    /\ fetches = 0
    /\ previous = NoResult
    /\ InitBackend

\* a person edits the Count sheet: one more row below the header row
AppendSummaryRow ==
    /\ result = NoResult
    /\ count # <<>>
    /\ Len(count) <= MaxSummaryRows
    /\ \E r \in SummaryRows : count' = Append(count, r)
    /\ edits' = edits + 1
    /\ UNCHANGED <<backend, grade, grid, forms, waitlist, result, fetches,
                   previous>>

CallGetDivisionSummary ==
    /\ result = NoResult
    /\ \E division \in SummaryQueries :
        result' = [fn |-> "get_division_summary", args |-> <<division>>,
                   out |-> Fetched(<<"Count">>,
                                   Ok(get_division_summary(division, count)))]
    /\ fetches' = Issued(<<"Count">>)
    /\ UNCHANGED <<backend, grade, grid, forms, waitlist, count, edits,
                   previous>>

CallListFullDivisions ==
    /\ result = NoResult
    /\ result' = [fn |-> "list_full_divisions", args |-> <<>>,
                  out |-> Fetched(<<"Count">>, Ok(list_full_divisions(count)))]
    /\ fetches' = Issued(<<"Count">>)
    /\ UNCHANGED <<backend, grade, grid, forms, waitlist, count, edits,
                   previous>>

CallListDivisionsWithWaitlist ==
    /\ result = NoResult
    /\ result' = [fn |-> "list_divisions_with_waitlist", args |-> <<>>,
                  out |-> Fetched(<<"Count">>,
                                  Ok(list_divisions_with_waitlist(count)))]
    /\ fetches' = Issued(<<"Count">>)
    /\ UNCHANGED <<backend, grade, grid, forms, waitlist, count, edits,
                   previous>>

CallListDivisionsStillNeedingTeams ==
    /\ result = NoResult
    /\ result' = [fn |-> "list_divisions_still_needing_teams", args |-> <<>>,
                  out |-> Fetched(<<"Count">>,
                                  Ok(list_divisions_still_needing_teams(count)))]
    /\ fetches' = Issued(<<"Count">>)
    /\ UNCHANGED <<backend, grade, grid, forms, waitlist, count, edits,
                   previous>>

NextSummary ==
    \/ AppendSummaryRow
    \/ Return
    \/ CallGetDivisionSummary
    \/ CallListDivisionSummaries
    \/ CallListFullDivisions
    \/ CallListDivisionsWithWaitlist
    \/ CallListDivisionsStillNeedingTeams
    \/ CallCompareDivisionTeamCounts

SpecSummary == InitSummary /\ [][NextSummary]_vars

-----------------------------------------------------------------------------
(* Properties of the Count sheet summaries *)

\* C11: no result of get_division_summary, list_division_summaries,
\* list_full_divisions, list_divisions_with_waitlist,
\* list_divisions_still_needing_teams or
\* compare_division_team_counts_with_registrations carries "Total Teams" or
\* "Revenue" as its division.
C11_NoPseudoRowAsDivision ==
    LET pseudo == {"Total Teams", "Revenue"}
        out == result.out.value
    IN  /\ result.fn \in {"get_division_summary", "list_division_summaries",
                          "list_divisions_still_needing_teams",
                          "compare_division_team_counts_with_registrations"}
            => \A k \in 1..Len(out) : out[k].division \notin pseudo
        /\ result.fn \in {"list_full_divisions", "list_divisions_with_waitlist"}
            => \A k \in 1..Len(out) : out[k] \notin pseudo

-----------------------------------------------------------------------------
(* Properties of the combined waitlist views *)

\* C13: for every division entry of get_combined_waitlist_summary,
\* combined_waitlist_count = form_responses_waitlist_count +
\* manual_waitlist_count, the first being the number of waitlisted
\* registrations that list the division and the second the number of Waitlist
\* sheet rows of the division; nothing is deduplicated, so a team that is both
\* a waitlisted registration and on the Waitlist sheet counts twice.
C13_CombinedIsSum ==
    result.fn = "get_combined_waitlist_summary" =>
        \A k \in 1..Len(result.out.value) :
            LET e == result.out.value[k]
                registered ==
                    {i \in 2..Len(forms) :
                        /\ Len(forms[i]) >= 4
                        /\ Contains(Upper(forms[i][4]), "WAITING LIST")
                        /\ In(e.division, parse_divisions(forms[i][4]))}
                \* the "Divison" column of the header row, 0 if it has none
                col == IF Len(waitlist) >= 2
                          /\ \E c \in 1..Len(waitlist[2]) : waitlist[2][c] = "Divison"
                       THEN CHOOSE c \in 1..Len(waitlist[2]) :
                                waitlist[2][c] = "Divison"
                       ELSE 0
                listed ==
                    {i \in 3..Len(waitlist) :
                        /\ col > 0
                        /\ Len(waitlist[i]) >= col
                        /\ Lower(Strip(waitlist[i][col])) = Lower(Strip(e.division))}
            IN  /\ e.form_responses_waitlist_count = Cardinality(registered)
                /\ e.manual_waitlist_count = Cardinality(listed)
                /\ e.combined_waitlist_count
                    = Cardinality(registered) + Cardinality(listed)

\* the summary has an entry of a division in which the team Hawks is a
\* waitlisted registration and also listed on the Waitlist sheet
C13_Witness ==
    /\ result.fn = "get_combined_waitlist_summary"
    /\ \E k \in 1..Len(result.out.value) :
        /\ result.out.value[k].division = "3rd Boys"
        /\ result.out.value[k].form_responses_waitlist_count >= 1
        /\ result.out.value[k].manual_waitlist_count >= 1
    /\ \E i \in 2..Len(forms) : forms[i][3] = "Hawks" /\ forms[i][4] = "3rd Boys, *WAITING LIST*"
    /\ \E i \in 3..Len(waitlist) :
        Len(waitlist[i]) >= 6 /\ waitlist[i][5] = "3rd Boys" /\ waitlist[i][6] = "Hawks"

\* C15: get_combined_waitlist_for_division(d) returns one list in which every
\* entry of source "form_responses" (position None) precedes every entry of
\* source "waitlist_sheet", the waitlist_sheet entries carry the positions
\* 1..n in sheet row order, and the entries of each source are those of
\* get_waitlisted_teams(d) and of get_waitlist_for_division(d), in their order.
C15_FormResponsesFirst ==
    result.fn = "get_combined_waitlist_for_division" =>
        LET out == result.out.value
            d == result.args[1]
            fr == get_waitlisted_teams(d, forms)
            wl == get_waitlist_for_division(d, waitlist)
            m == Len(fr)
        IN  /\ Len(out) = m + Len(wl)
            /\ \A k \in 1..m :
                /\ out[k].source = "form_responses"
                /\ out[k].position = NoInt
                /\ out[k].team_name = fr[k].team_name
                /\ out[k].email = fr[k].contact_email
            /\ \A k \in 1..Len(wl) :
                /\ out[m + k].source = "waitlist_sheet"
                /\ out[m + k].position = <<k>>
                /\ out[m + k].team_name = Get(wl[k], "Team Name")
                /\ out[m + k].email = Get(wl[k], "Email")
            /\ \A i, j \in 1..Len(out) :
                (out[i].source = "form_responses"
                    /\ out[j].source = "waitlist_sheet") => i < j

\* a combined list with entries of both sources, two of them from the
\* Waitlist sheet
C15_Witness ==
    /\ result.fn = "get_combined_waitlist_for_division"
    /\ \E i \in 1..Len(result.out.value) :
        result.out.value[i].source = "form_responses"
    /\ \E i \in 1..Len(result.out.value) :
        result.out.value[i].position = <<2>>

-----------------------------------------------------------------------------
(* Searches by team name *)

\* NameMatches with the substring test applied to the name as written
NameMatchesCaseSensitive(name, query, exact) ==
    LET q == Lower(Strip(query))
    IN  IF exact THEN Lower(Strip(OrEmpty(name))) = q
        ELSE Contains(Strip(OrEmpty(name)), q)

\* the test of the by-name searches: name == q if exact, q in name otherwise,
\* both stripped and lower-cased
NameMatches(name, query, exact) ==
    LET q == Lower(Strip(query))
        n == Lower(Strip(OrEmpty(name)))
    IN  IF exact THEN n = q ELSE Contains(n, q)

find_boys_teams_by_name(g, query, exact, values) ==
    LET boys == list_boys_teams(g, values)
    IN  IF boys.status # "ok" THEN boys
        ELSE Ok(SelectSeq(boys.value,
                    LAMBDA t : NameMatches(Get(t, "Team Name"), query, exact)))

find_girls_teams_by_name(g, query, exact, values) ==
    LET girls == list_girls_teams(g, values)
    IN  IF girls.status # "ok" THEN girls
        ELSE Ok(SelectSeq(girls.value,
                    LAMBDA t : NameMatches(Get(t, "Team Name"), query, exact)))

find_team_by_name_any_division(g, query, exact, values) ==
    LET all_teams == list_all_teams(g, values)
    IN  IF all_teams.status # "ok" THEN all_teams
        ELSE Ok(SelectSeq(all_teams.value,
                    LAMBDA t : NameMatches(t["team_name"], query, exact)))

find_registrations_by_team_name(query, exact, values) ==
    SelectSeq(get_header_and_rows(values).rows,
              LAMBDA row : NameMatches(Get(row, "Team Name"), query, exact))

get_waitlist_for_team_name(team_name, exact, values) ==
    SelectSeq(load_waitlist_sheet(values),
              LAMBDA row : NameMatches(Get(row, "Team Name"), team_name, exact))

MaxSearchEdits == 2

InitSearch ==
    /\ grade \in Grades
    /\ grid \in {Layout(grade), SubSeq(Layout(grade), 1, Len(Layout(grade)) - 3)}
    /\ forms \in {<<>>, WaitlistedForms}
    /\ waitlist = WaitlistSample
    /\ count = <<>>
    /\ edits = 0
    /\ result = NoResult
    /\ fetches = 0
    /\ previous = NoResult
    /\ InitBackend

\* a person edits the bracket sheet: one more row
AppendSearchRow ==
    /\ result = NoResult
    /\ edits < MaxSearchEdits
    /\ \E r \in {NamedRow,
                 <<"bo@x.org", "Bo", "Ray", "1", " Lady Hawks ", "3">>,
                 PlaceholderRow, ShortRow} :
        grid' = Append(grid, r)
    /\ edits' = edits + 1
    /\ UNCHANGED <<backend, grade, forms, waitlist, count, result, fetches,
                   previous>>

CallFindBoysTeamsByName ==
    /\ result = NoResult
    /\ \E query \in {"hawks ", "aw"}, exact \in BOOLEAN :
        result' = [fn |-> "find_boys_teams_by_name", args |-> <<query, exact>>,
                   out |-> Fetched(<<BracketSheet(grade)>>,
                                   find_boys_teams_by_name(grade, query, exact, grid))]
    /\ fetches' = Issued(<<BracketSheet(grade)>>)
    /\ UNCHANGED <<backend, grade, grid, forms, waitlist, count, edits,
                   previous>>

CallFindGirlsTeamsByName ==
    /\ result = NoResult
    /\ \E query \in {"hawks ", "aw"}, exact \in BOOLEAN :
        result' = [fn |-> "find_girls_teams_by_name", args |-> <<query, exact>>,
                   out |-> Fetched(<<BracketSheet(grade)>>,
                                   find_girls_teams_by_name(grade, query, exact, grid))]
    /\ fetches' = Issued(<<BracketSheet(grade)>>)
    /\ UNCHANGED <<backend, grade, grid, forms, waitlist, count, edits,
                   previous>>

CallFindTeamByNameAnyDivision ==
    /\ result = NoResult
    /\ \E query \in {"hawks ", "aw"}, exact \in BOOLEAN :
        LET sheets == IF list_boys_teams(grade, grid).status = "ok"
                      THEN <<BracketSheet(grade), BracketSheet(grade)>>
                      ELSE <<BracketSheet(grade)>>
        IN  /\ result' = [fn |-> "find_team_by_name_any_division",
                          args |-> <<query, exact>>,
                          out |-> Fetched(sheets,
                                          find_team_by_name_any_division(
                                              grade, query, exact, grid))]
            /\ fetches' = Issued(sheets)
    /\ UNCHANGED <<backend, grade, grid, forms, waitlist, count, edits,
                   previous>>

CallFindRegistrationsByTeamName ==
    /\ result = NoResult
    /\ \E query \in {"hawks ", "aw"}, exact \in BOOLEAN :
        result' = [fn |-> "find_registrations_by_team_name",
                   args |-> <<query, exact>>,
                   out |-> Fetched(<<"Form Responses 1">>,
                                   Ok(find_registrations_by_team_name(query, exact,
                                                               forms)))]
    /\ fetches' = Issued(<<"Form Responses 1">>)
    /\ UNCHANGED <<backend, grade, grid, forms, waitlist, count, edits,
                   previous>>

CallGetWaitlistForTeamName ==
    /\ result = NoResult
    /\ \E query \in {"hawks ", "aw"}, exact \in BOOLEAN :
        result' = [fn |-> "get_waitlist_for_team_name",
                   args |-> <<query, exact>>,
                   out |-> Fetched(<<"Waitlist">>,
                                   Ok(get_waitlist_for_team_name(query, exact, waitlist)))]
    /\ fetches' = Issued(<<"Waitlist">>)
    /\ UNCHANGED <<backend, grade, grid, forms, waitlist, count, edits,
                   previous>>

NextSearch ==
    \/ AppendSearchRow
    \/ Return
    \/ CallFindBoysTeamsByName
    \/ CallFindGirlsTeamsByName
    \/ CallFindTeamByNameAnyDivision
    \/ CallFindRegistrationsByTeamName
    \/ CallGetWaitlistForTeamName

SpecSearch == InitSearch /\ [][NextSearch]_vars

\* C14: for every team-name search function, sheet content and query, what
\* the search returns with exact=True is part of what it returns with
\* exact=False for the same query on the same sheet: every record of the
\* exact result is a record of the substring result (and a search that fails
\* fails in both modes).
C14_ExactWithinSubstring ==
    LET query == result.args[1]
        loose ==
            CASE result.fn = "find_boys_teams_by_name" ->
                    find_boys_teams_by_name(grade, query, FALSE, grid)
              [] result.fn = "find_girls_teams_by_name" ->
                    find_girls_teams_by_name(grade, query, FALSE, grid)
              [] result.fn = "find_team_by_name_any_division" ->
                    find_team_by_name_any_division(grade, query, FALSE, grid)
              [] result.fn = "find_registrations_by_team_name" ->
                    Ok(find_registrations_by_team_name(query, FALSE, forms))
              [] result.fn = "get_waitlist_for_team_name" ->
                    Ok(get_waitlist_for_team_name(query, FALSE, waitlist))
    IN  (/\ result.fn \in {"find_boys_teams_by_name", "find_girls_teams_by_name",
                           "find_team_by_name_any_division",
                           "find_registrations_by_team_name",
                           "get_waitlist_for_team_name"}
         /\ result.args[2])
        => /\ loose.status = result.out.status
           /\ \A k \in 1..Len(result.out.value) :
                \E j \in 1..Len(loose.value) :
                    loose.value[j] = result.out.value[k]

\* an exact search of a bracket sheet has found a team while the substring
\* search of the same sheet finds more teams
C14_Witness ==
    /\ result.fn = "find_girls_teams_by_name"
    /\ result.args[2]
    /\ result.out.status = "ok"
    /\ Len(result.out.value) >= 1
    /\ Len(find_girls_teams_by_name(grade, result.args[1], FALSE, grid).value)
        > Len(result.out.value)

-----------------------------------------------------------------------------
(* The queries while the sheet gateway fails *)

\* the spreadsheet as the queries find it: every sheet filled in
InitGateway ==
    /\ grade \in Grades
    /\ grid = Layout(grade)
    /\ forms = WaitlistedForms
    /\ waitlist = WaitlistSample
    /\ count = <<CountHeader,
                 <<"3rd Boys", "10", "Wait List", "5", "FULL">>,
                 <<"4th Girls", "n/a", "2">>,
                 <<"Total Teams", "30">>>>
    /\ edits = 0
    /\ result = NoResult
    /\ fetches = 0
    /\ previous = NoResult
    /\ InitBackend

\* between two invocations the credentials, the network or the spreadsheet
\* change: the gateway fails, fails otherwise, or answers again
GatewayChanges ==
    /\ result = NoResult
    /\ gateway' \in ({"up", "bad credentials", "unreachable", "Count",
                      "Waitlist", "Form Responses 1", BracketSheet(grade)}
                     \ {gateway})
    /\ UNCHANGED <<grade, grid, forms, waitlist, count, edits, result, fetches,
                   previous, default_client, constructed, memory, pending>>

NextGateway ==
    \/ GatewayChanges
    \/ Return
    \/ CallListBoysTeams
    \/ CallListGirlsTeams
    \/ CallFindEmptyTeamSlots
    \/ CallGetTeamsByDivision
    \/ CallGetWaitlistedTeams
    \/ CallGetRecentRegistrations
    \/ CallGetTeamDetails
    \/ CallGetCandidateTeams
    \/ CallGetCandidateProfilesByName
    \/ CallGetTeamRegistrationDetails
    \/ CallIsCandidateOnAnyWaitlist
    \/ CallGetWaitlistForDivision
    \/ CallGetCombinedWaitlistSummary
    \/ CallGetCombinedWaitlistForDivision
    \/ CallListDivisionSummaries
    \/ CallCountTeamsByDivision
    \/ CallCompareDivisionTeamCounts
    \/ CallGetDivisionSummary
    \/ CallListFullDivisions
    \/ CallListDivisionsWithWaitlist
    \/ CallListDivisionsStillNeedingTeams
    \/ CallFindBoysTeamsByName
    \/ CallFindGirlsTeamsByName
    \/ CallFindTeamByNameAnyDivision
    \/ CallFindRegistrationsByTeamName
    \/ CallGetWaitlistForTeamName

SpecGateway == InitGateway /\ [][NextGateway]_vars

\* C16: an invocation that fetched a sheet whose fetch fails (bad credentials,
\* unreachable spreadsheet, missing sheet) ends with the error of that fetch:
\* it returns no list, no None and no partial result.  The sheets each query
\* reads are restated here from its loaders.
C16_FetchErrorPropagates ==
    LET bracket == {"list_boys_teams", "list_girls_teams",
                    "find_empty_team_slots", "find_boys_teams_by_name",
                    "find_girls_teams_by_name",
                    "find_team_by_name_any_division"}
        form == {"get_teams_by_division", "get_waitlisted_teams",
                 "get_recent_registrations", "get_team_details",
                 "get_candidate_teams", "get_candidate_profiles_by_name",
                 "get_team_registration_details", "count_teams_by_division",
                 "find_registrations_by_team_name",
                 "is_candidate_on_any_waitlist",
                 "get_combined_waitlist_summary",
                 "get_combined_waitlist_for_division",
                 "compare_division_team_counts_with_registrations"}
        manual == {"get_waitlist_for_division", "get_waitlist_for_team_name",
                   "is_candidate_on_any_waitlist",
                   "get_combined_waitlist_summary",
                   "get_combined_waitlist_for_division"}
        summary == {"list_division_summaries", "get_division_summary",
                    "list_full_divisions", "list_divisions_with_waitlist",
                    "list_divisions_still_needing_teams",
                    "compare_division_team_counts_with_registrations"}
        needed == (IF result.fn \in bracket THEN {BracketSheet(grade)} ELSE {})
                  \cup (IF result.fn \in form THEN {"Form Responses 1"} ELSE {})
                  \cup (IF result.fn \in manual THEN {"Waitlist"} ELSE {})
                  \cup (IF result.fn \in summary THEN {"Count"} ELSE {})
        failed == {s \in needed :
                      gateway \in {"bad credentials", "unreachable", s}}
    IN  (result # NoResult /\ fetches > 0 /\ failed # {})
        => /\ result.out.value = <<>>
           /\ result.out.status =
                (CASE gateway = "bad credentials" -> "FileNotFoundError"
                   [] gateway = "unreachable" -> "HttpError 404"
                   [] OTHER -> "HttpError 400")

\* the Waitlist sheet is missing: the combined view fetched the registrations,
\* then failed on the Waitlist sheet, and the registrations it had are gone
C16_Witness ==
    /\ gateway = "Waitlist"
    /\ result.fn = "get_combined_waitlist_for_division"
    /\ fetches = 2
    /\ result.out = Raise("HttpError 400")
    /\ get_waitlisted_teams(result.args[1], forms) # <<>>

-----------------------------------------------------------------------------
(* The default client of a process over a sequence of get_default_client *)
(* calls                                                                  *)

\* a process just started: nothing invoked, the sheets not looked at
InitProcess ==
    /\ grade = "3rd"
    /\ grid = <<>>
    /\ forms = <<>>
    /\ waitlist = <<>>
    /\ count = <<>>
    /\ edits = 0
    /\ result = NoResult
    /\ fetches = 0
    /\ previous = NoResult
    /\ InitBackend

CallGetDefaultClient ==
    /\ result = NoResult
    /\ \E read_only \in BOOLEAN :
        LET call == get_default_client(read_only)
        IN  /\ result' = [fn |-> "get_default_client", args |-> <<read_only>>,
                          out |-> call.out]
            /\ default_client' = call.default_client
            /\ constructed' = call.constructed
    /\ UNCHANGED <<grade, grid, forms, waitlist, count, edits, fetches,
                   previous, gateway, memory, pending>>

NextClient ==
    \/ GatewayChanges
    \/ CallGetDefaultClient
    \/ ReturnAndKeep

SpecClient == InitProcess /\ [][NextClient]_vars

\* C17: over any sequence of get_default_client calls in one process at most
\* one GoogleSheetsClient is ever built; every call that succeeds returns that
\* object, the one the call before it returned, whatever read_only it passes.
C17_OneDefaultClient ==
    /\ constructed <= 1
    /\ (default_client = NoClient) = (constructed = 0)
    /\ (result.fn = "get_default_client" /\ result.out.status = "ok")
        => /\ default_client = <<result.out.value>>
           /\ result.out.value.id = 1
           /\ (previous.fn = "get_default_client" /\ previous.out.status = "ok")
               => previous.out.value = result.out.value

\* a read-only client was returned, then a call asking for a read-write one
\* got the same read-only client
C17_Witness ==
    /\ previous.fn = "get_default_client"
    /\ previous.args = <<TRUE>>
    /\ previous.out.status = "ok"
    /\ result.fn = "get_default_client"
    /\ result.args = <<FALSE>>
    /\ result.out.status = "ok"
    /\ result.out.value.read_only

-----------------------------------------------------------------------------
(* The HTTP endpoint and the conversation memory *)

\* POST /api/v1/basketball/ask-question with a body {question, user_id}: an
\* empty question is refused; otherwise ask_question(question=...) is awaited,
\* without the user_id of the request, and either the agent answers or
\* something raises and the request ends with status 500, the question
\* checkpointed or not
ask_question_endpoint ==
    /\ result = NoResult
    /\ Len(memory[get_user_config("default_user")]) < 2 * MaxTurns
    /\ \E question \in {"", "  ", "full?", "who?"}, user_id \in {"ann", "bob"} :
        IF Strip(question) = ""
        THEN /\ result' = [fn |-> "ask_question_endpoint",
                           args |-> <<question, user_id>>,
                           out |-> Raise("HTTPException 400")]
             /\ memory' = memory
        ELSE \/ \E answer \in {"answer"} :
                  /\ result' = [fn |-> "ask_question_endpoint",
                                args |-> <<question, user_id>>,
                                out |-> Ok([answer |-> answer,
                                            status |-> "success",
                                            code |-> 200,
                                            question |-> question])]
                  /\ memory' = ask_question(question, "default_user", answer)
             \/ /\ result' = [fn |-> "ask_question_endpoint",
                              args |-> <<question, user_id>>,
                              out |-> Raise("HTTPException 500")]
                /\ \/ memory' = memory
                   \/ memory' = [memory EXCEPT
                                   ![get_user_config("default_user")] =
                                       Append(@, question)]
    /\ UNCHANGED <<grade, grid, forms, waitlist, count, edits, fetches,
                   previous, gateway, default_client, constructed, pending>>

NextChat ==
    \/ ask_question_endpoint
    \/ ReturnAndKeep

SpecChat == InitProcess /\ [][NextChat]_vars

\* C18: the conversation memory is keyed by user_id: a request the endpoint
\* answered wrote its question and its answer at the end of the thread of
\* its own user_id.
C18_MemoryKeyedByUserId ==
    (result.fn = "ask_question_endpoint" /\ result.out.status = "ok")
        => LET thread == memory[get_user_config(result.args[2])]
           IN  /\ Len(thread) >= 2
               /\ SubSeq(thread, Len(thread) - 1, Len(thread))
                    = <<result.args[1], result.out.value.answer>>

-----------------------------------------------------------------------------
(* Phone normalization on its own *)

\* the phone values of at most n characters, digits and punctuation
RECURSIVE PhoneValues(_)
PhoneValues(n) ==
    IF n = 0 THEN {""}
    ELSE PhoneValues(n - 1)
         \cup {p \o c : p \in PhoneValues(n - 1),
                        c \in {"5", "0", "(", "-", " "}}

\* _normalize_phone(phone) on a cell of a sheet, or on no cell
CallNormalizePhone ==
    /\ result = NoResult
    /\ \E phone \in PhoneValues(MaxPhoneLen) \cup {None, "(573) 230-8287"} :
        result' = [fn |-> "_normalize_phone", args |-> <<phone>>,
                   out |-> Ok([phone |-> NormalizePhone(phone)])]
    /\ previous' = NoResult
    /\ UNCHANGED <<backend, grade, grid, forms, waitlist, count, edits, fetches>>

\* _normalize_phone on what _normalize_phone returned
CallNormalizePhoneAgain ==
    /\ result.fn = "_normalize_phone"
    /\ previous = NoResult
    /\ result' = [fn |-> "_normalize_phone",
                  args |-> <<result.out.value.phone>>,
                  out |-> Ok([phone |-> NormalizePhone(result.out.value.phone)])]
    /\ previous' = result
    /\ UNCHANGED <<backend, grade, grid, forms, waitlist, count, edits, fetches>>

NextPhone ==
    \/ CallNormalizePhone
    \/ CallNormalizePhoneAgain
    \/ Return

SpecPhone == InitProcess /\ [][NextPhone]_vars

\* C19: phone normalization is idempotent: normalizing what a normalization
\* returned returns it again; and a value made of one or more digits and
\* nothing else is returned unchanged.
C19_NormalizeIdempotent ==
    result.fn = "_normalize_phone"
        => /\ (previous.fn = "_normalize_phone"
                /\ result.args = <<previous.out.value.phone>>)
               => result.out = previous.out
           /\ LET p == result.args[1]
              IN  (/\ p \notin {None, ""}
                   /\ \A i \in 1..Len(p) :
                        SubSeq(p, i, i) \in {"0", "1", "2", "3", "4", "5", "6",
                                             "7", "8", "9"})
                  => result.out.value.phone = p

\* a value with punctuation was normalized to digits, and those digits were
\* normalized again
C19_Witness ==
    /\ previous.fn = "_normalize_phone"
    /\ previous.args = <<"(5-">>
    /\ result.fn = "_normalize_phone"
    /\ result.args = <<"5">>
    /\ result.out.value.phone = "5"

\* C20: normalizing the phone value "(573) 230-8287" yields its ten digits in
\* order, "5732308287".
C20_ExampleDigits ==
    (result.fn = "_normalize_phone" /\ result.args = <<"(573) 230-8287">>)
        => result.out.value.phone = "5732308287"

\* C20 as the specification words it: the value yields "5738230287"
C20_ExampleAsWritten ==
    (result.fn = "_normalize_phone" /\ result.args = <<"(573) 230-8287">>)
        => result.out.value.phone = "5738230287"

C20_Witness ==
    /\ result.fn = "_normalize_phone"
    /\ result.args = <<"(573) 230-8287">>
    /\ result.out.status = "ok"
    /\ Len(result.out.value.phone) = 10

-----------------------------------------------------------------------------
(* Block boundaries of the bracket sheets *)

C22_BoysBlockEndsAtBlankRow ==
    LET header == CASE grade = "5th" -> 1
                    [] grade = "3rd" ->
                         IF /\ grid # <<>>
                            /\ grid[1] # <<>>
                            /\ Lower(Strip(grid[1][1])) = "3rd grade boys"
                         THEN 2 ELSE 1
                    [] OTHER -> 2
        blank == {i \in (header + 1)..Len(grid) :
                    \A c \in 1..Len(grid[i]) : Strip(grid[i][c]) = ""}
        end == IF blank = {} THEN Len(grid) + 1
               ELSE CHOOSE i \in blank : \A j \in blank : i <= j
        Cell(row, c) == IF c <= Len(row) THEN row[c] ELSE None
    IN  (/\ result.fn = "list_boys_teams"
         /\ result.out.status = "ok"
         /\ header <= Len(grid)
         /\ grid[header] = HeaderRow)
        => /\ Len(result.out.value) = end - header - 1
           /\ \A k \in 1..Len(result.out.value) :
                /\ result.out.value[k]["Team Name"] = Cell(grid[header + k], 5)
                /\ result.out.value[k]["Team #"]
                     = ParseInt(Cell(grid[header + k], 6))

\* a named team stands in the girls block, below the blank row that ends the
\* boys block, and the boys list holds the one team above that row
C22_Witness ==
    /\ result.fn = "list_boys_teams"
    /\ result.out.status = "ok"
    /\ Len(result.out.value) = 1
    /\ Len(grid) >= 6
    /\ grid[Len(grid)] = NamedRow
    /\ \E i \in 2..(Len(grid) - 1) : grid[i] = <<>> /\ grid[i - 1] = NamedRow

\* C23 (as stated): in every block parser the header row is the row below
\* the first row whose first cell is the block's label (case-insensitive),
\* wherever that row sits, or the first row of the sheet when the boys block
\* has no label row; the first record is read from the row below that header.
C23_HeaderFollowsLabel ==
    LET label == IF result.fn = "list_boys_teams"
                 THEN Lower(BoysLabelRow(grade)[1])
                 ELSE Lower(GirlsLabelRow(grade)[1])
        labelled == {i \in 1..Len(grid) :
                        grid[i] # <<>> /\ Lower(Strip(grid[i][1])) = label}
        header == IF labelled = {} THEN 1
                  ELSE 1 + CHOOSE i \in labelled : \A j \in labelled : i <= j
    IN  (/\ result.fn \in {"list_boys_teams", "list_girls_teams"}
         /\ result.out.status = "ok"
         /\ result.fn = "list_girls_teams" => labelled # {}
         /\ header < Len(grid)
         /\ grid[header] = HeaderRow
         /\ grid[header + 1] \in {NamedRow, PlaceholderRow})
        => /\ result.out.value # <<>>
           /\ result.out.value[1]["Team Name"] = grid[header + 1][5]
           /\ result.out.value[1]["Team #"] = ParseInt(grid[header + 1][6])

\* C23 (amended): in the girls block parsers of the 3rd, 5th, 6th and 7/8
\* grade sheets the header row is the row below the first row whose first
\* cell is the block's label (case-insensitive), wherever that row sits; in
\* the 3rd grade boys parser it is the second row when the first row is the
\* label and the first row otherwise; the other parsers take a fixed row
\* (the first row for the 5th grade boys, the second for the 4th, 6th and
\* 7/8 grade boys, the sixteenth for the 4th grade girls).  The first record
\* is read from the row below that header.
C23_HeaderFollowsScannedLabel ==
    LET label == Lower(GirlsLabelRow(grade)[1])
        labelled == {i \in 1..Len(grid) :
                        grid[i] # <<>> /\ Lower(Strip(grid[i][1])) = label}
        first_is_label == /\ grid # <<>>
                          /\ grid[1] # <<>>
                          /\ Lower(Strip(grid[1][1])) = "3rd grade boys"
        header == CASE result.fn = "list_girls_teams" /\ grade = "4th" -> 16
                    [] result.fn = "list_girls_teams" /\ labelled # {} ->
                         1 + CHOOSE i \in labelled : \A j \in labelled : i <= j
                    [] result.fn = "list_girls_teams" -> Len(grid)
                    [] grade = "5th" -> 1
                    [] grade = "3rd" -> IF first_is_label THEN 2 ELSE 1
                    [] OTHER -> 2
    IN  (/\ result.fn \in {"list_boys_teams", "list_girls_teams"}
         /\ result.out.status = "ok"
         /\ header < Len(grid)
         /\ grid[header] = HeaderRow
         /\ grid[header + 1] \in {NamedRow, PlaceholderRow})
        => /\ result.out.value # <<>>
           /\ result.out.value[1]["Team Name"] = grid[header + 1][5]
           /\ result.out.value[1]["Team #"] = ParseInt(grid[header + 1][6])

\* the girls label row is the first row of the sheet, not where the layout
\* puts it, and the girls list starts with the row below the header under it
C23_Witness ==
    /\ result.fn = "list_girls_teams"
    /\ result.out.status = "ok"
    /\ grade \in {"3rd", "5th", "6th", "7/8"}
    /\ grid = <<GirlsLabelRow(grade), HeaderRow, NamedRow>>
    /\ Len(result.out.value) = 1
    /\ result.out.value[1]["Team Name"] = "Hawks"

-----------------------------------------------------------------------------
(* The teams of both divisions of a grade *)

\* C24: list_all_<grade>_grade_teams returns the boys and the girls records
\* as one sequence, each tagged with its division, sorted by division and
\* then by team number with an absent number counting as 0; the records of
\* one division with one team number are those of its block, once each and
\* in sheet order.
C24_AllTeamsSorted ==
    (result.fn = "list_all_teams" /\ result.out.status = "ok") =>
        LET all == result.out.value
            boys == list_boys_teams(grade, grid).value
            girls == list_girls_teams(grade, grid).value
            Number(n) == IF n = NoInt THEN 0 ELSE n[1]
            Names(teams, key, n) ==
                LET kept == {i \in DOMAIN teams : Number(teams[i][key]) = n}
                IN  [k \in 1..Cardinality(kept) |->
                        LET i == CHOOSE i \in kept :
                                    Cardinality({j \in kept : j <= i}) = k
                        IN  <<teams[i][key],
                              IF key = "Team #" THEN teams[i]["Team Name"]
                              ELSE teams[i]["team_name"]>>]
            Tagged(d) ==
                LET kept == {i \in DOMAIN all : all[i]["division"] = d}
                IN  [k \in 1..Cardinality(kept) |->
                        all[CHOOSE i \in kept :
                                Cardinality({j \in kept : j <= i}) = k]]
            numbers == {Number(all[i]["team_number"]) : i \in DOMAIN all}
                       \cup {Number(boys[i]["Team #"]) : i \in DOMAIN boys}
                       \cup {Number(girls[i]["Team #"]) : i \in DOMAIN girls}
        IN  /\ Len(all) = Len(boys) + Len(girls)
            /\ \A i \in DOMAIN all :
                    all[i]["division"] = IF i <= Len(boys)
                                         THEN BoysDivision(grade)
                                         ELSE GirlsDivision(grade)
            /\ \A i \in DOMAIN all : \A j \in DOMAIN all :
                    (i < j /\ all[i]["division"] = all[j]["division"])
                        => Number(all[i]["team_number"])
                            <= Number(all[j]["team_number"])
            /\ \A n \in numbers :
                /\ Names(Tagged(BoysDivision(grade)), "team_number", n)
                    = Names(boys, "Team #", n)
                /\ Names(Tagged(GirlsDivision(grade)), "team_number", n)
                    = Names(girls, "Team #", n)

\* a team without a number stands below a numbered team in the sheet and
\* before it in the result, and two records without a number keep their
\* sheet order
C24_Witness ==
    /\ result.fn = "list_all_teams"
    /\ result.out.status = "ok"
    /\ Len(result.out.value) >= 4
    /\ \E i \in DOMAIN grid : \E j \in DOMAIN grid :
            i < j /\ grid[i] = NamedRow /\ grid[j] = ShortRow
    /\ \E i \in 1..(Len(result.out.value) - 2) :
        /\ result.out.value[i]["team_number"] = NoInt
        /\ result.out.value[i + 1]["team_number"] = NoInt
        /\ result.out.value[i]["team_name"] # result.out.value[i + 1]["team_name"]
        /\ result.out.value[i + 2]["team_number"] = SomeInt(1)
        /\ result.out.value[i + 2]["division"] = result.out.value[i]["division"]

-----------------------------------------------------------------------------
(* The registration counts against the registration lists *)

\* C25: for every division that count_teams_by_division reports, its
\* confirmed count is the number of rows get_teams_by_division returns for
\* the division without the waitlisted ones, and its waitlist count is the
\* number of rows get_waitlisted_teams returns for it.
C25_CountsMatchLists ==
    (result.fn = "count_teams_by_division" /\ result.out.status = "ok") =>
        \A i \in DOMAIN result.out.value :
            LET entry == result.out.value[i]
            IN  /\ entry.confirmed
                    = Len(get_teams_by_division(entry.division, FALSE, forms))
                /\ entry.waitlist
                    = Len(get_waitlisted_teams(entry.division, forms))

\* C26: no division name parsed from a registration row contains the
\* waiting-list marker: in every record the registration queries return, no
\* element of the division list contains "WAITING LIST" in any letter case.
C26_NoMarkerInDivisionNames ==
    (/\ result.fn \in {"get_teams_by_division", "get_waitlisted_teams"}
     /\ result.out.status = "ok")
        => \A i \in DOMAIN result.out.value :
            \A k \in DOMAIN result.out.value[i].division :
                ~Contains(Upper(result.out.value[i].division[k]), "WAITING LIST")

\* C27: each row of the Waitlist sheet is counted in exactly one division:
\* the manual_waitlist_count values of get_combined_waitlist_summary add up
\* to the number of Waitlist rows that have a division.
C27_ManualCountsAddUp ==
    (result.fn = "get_combined_waitlist_summary" /\ result.out.status = "ok") =>
        LET col == IF Len(waitlist) >= 2
                      /\ \E c \in 1..Len(waitlist[2]) : waitlist[2][c] = "Divison"
                   THEN CHOOSE c \in 1..Len(waitlist[2]) :
                            waitlist[2][c] = "Divison"
                   ELSE 0
            listed == {i \in 3..Len(waitlist) :
                        /\ col > 0
                        /\ Len(waitlist[i]) >= col
                        /\ Strip(waitlist[i][col]) # ""}
            counted == {<<k, n>> \in (DOMAIN result.out.value) \X (1..Len(waitlist)) :
                            n <= result.out.value[k].manual_waitlist_count}
        IN  Cardinality(counted) = Cardinality(listed)

-----------------------------------------------------------------------------
(* A two-fetch query while the bracket sheet is being edited *)

MaxMoves == 2

\* the bracket sheet of grade g with the row `row` seeded as a boys team
\* (version 1) and the same sheet after the row was moved to the girls block
\* (version 2)
SheetVersions(g, row) ==
    <<[i \in DOMAIN Layout(g) |-> IF Layout(g)[i] = NamedRow THEN row ELSE Layout(g)[i]],
      [i \in DOMAIN Layout(g) |-> IF Layout(g)[i] = NamedRow THEN <<>> ELSE Layout(g)[i]]
      \o <<row>>>>

\* the row that is seeded on the sheet
SeededRow == CHOOSE row \in {NamedRow, PlaceholderRow} :
                 \E v \in 1..2 : grid = SheetVersions(grade, row)[v]

InitRace ==
    /\ InitBackend
    /\ grade \in Grades
    /\ grid \in {SheetVersions(grade, row)[1] : row \in {NamedRow, PlaceholderRow}}
    /\ forms = <<>>
    /\ waitlist = <<>>
    /\ count = <<>>
    /\ edits = 0
    /\ result = NoResult
    /\ fetches = 0
    /\ previous = NoResult

\* somebody moves the seeded row to the other block of the sheet, at any
\* moment, also between the two fetches of a query
MoveTeam ==
    /\ edits < MaxMoves
    /\ grid' = IF grid = SheetVersions(grade, SeededRow)[1]
               THEN SheetVersions(grade, SeededRow)[2]
               ELSE SheetVersions(grade, SeededRow)[1]
    /\ edits' = edits + 1
    /\ UNCHANGED <<grade, forms, waitlist, count, result, fetches, previous,
                   gateway, default_client, constructed, memory, pending>>

\* boys = list_<grade>_grade_boys_teams(): the first fetch of the sheet
FetchBoysBlock ==
    /\ result = NoResult
    /\ pending = NoPending
    /\ \E fn \in {"list_all_teams", "find_empty_team_slots"} :
           pending' = [fn |-> fn, values |-> grid]
    /\ fetches' = Issued(<<BracketSheet(grade)>>)
    /\ UNCHANGED <<grade, grid, forms, waitlist, count, edits, result, previous,
                   gateway, default_client, constructed, memory>>

\* girls = list_<grade>_grade_girls_teams(): the second fetch, then the merge
FetchGirlsBlock ==
    /\ pending # NoPending
    /\ result' = [fn |-> pending.fn, args |-> <<>>,
                  out |-> IF pending.fn = "list_all_teams"
                          THEN list_all_teams_fetching(grade, pending.values, grid)
                          ELSE find_empty_team_slots_fetching(grade, pending.values, grid)]
    /\ fetches' = fetches + Issued(<<BracketSheet(grade)>>)
    /\ pending' = NoPending
    /\ UNCHANGED <<grade, grid, forms, waitlist, count, edits, previous,
                   gateway, default_client, constructed, memory>>

NextRace ==
    \/ MoveTeam
    \/ FetchBoysBlock
    \/ FetchGirlsBlock
    \/ Return

SpecRace == InitRace /\ [][NextRace]_vars

\* C28: the result of one invocation of list_all_<grade>_grade_teams or of
\* find_<grade>_grade_empty_team_slots is the result for one version of the
\* sheet, the one before a concurrent edit or the one after it, never a mix of
\* the boys of one version with the girls of the other.
C28_OneFetchedGrid ==
    result # NoResult =>
        \E v \in 1..2 :
            result.out = IF result.fn = "list_all_teams"
                         THEN list_all_teams(grade, SheetVersions(grade, SeededRow)[v])
                         ELSE find_empty_team_slots(grade, SheetVersions(grade, SeededRow)[v])

-----------------------------------------------------------------------------
(* A bracket block against the registrations of its division *)

\* sorted({(t.get(key) or "").strip() for t in records if t.get(key)})
TeamNames(records, key) ==
    StableSort(
        Dedupe(MapSeq(SelectSeq(records, LAMBDA t : Truthy(Get(t, key))),
                      LAMBDA t : Strip(OrEmpty(Get(t, key))))),
        StrLess)

\* compare_<grade>_grade_boys_sheet_with_registrations (boys) and
\* compare_<grade>_grade_girls_sheet_with_registrations
compare_sheet_with_registrations(g, boys, values, form_values) ==
    LET sheet == IF boys THEN list_boys_teams(g, values)
                 ELSE list_girls_teams(g, values)
        division == IF boys THEN BoysDivision(g) ELSE GirlsDivision(g)
    IN  IF sheet.status # "ok" THEN sheet
        ELSE LET sheet_names == TeamNames(sheet.value, "Team Name")
                 reg_names == TeamNames(get_teams_by_division(division, TRUE,
                                                              form_values),
                                        "team_name")
             IN  Ok([sheet_team_names |-> sheet_names,
                     registration_team_names |-> reg_names,
                     only_in_sheet |->
                         SelectSeq(sheet_names, LAMBDA n : ~In(n, reg_names)),
                     only_in_registrations |->
                         SelectSeq(reg_names, LAMBDA n : ~In(n, sheet_names))])

InitCompare ==
    /\ InitBackend
    /\ grade \in {"3rd", "4th"}
    /\ grid = Layout(grade)
    /\ forms \in {<<FormsHeader>>, WaitlistedForms}
    /\ waitlist = <<>>
    /\ count = <<>>
    /\ edits = 0
    /\ result = NoResult
    /\ fetches = 0
    /\ previous = NoResult

CallCompareSheetWithRegistrations ==
    /\ result = NoResult
    /\ \E boys \in BOOLEAN :
        LET sheets == IF compare_sheet_with_registrations(grade, boys, grid,
                                                          forms).status = "ok"
                      THEN <<BracketSheet(grade), "Form Responses 1">>
                      ELSE <<BracketSheet(grade)>>
        IN  /\ result' = [fn |-> "compare_sheet_with_registrations",
                          args |-> <<boys>>,
                          out |-> Fetched(sheets,
                                     compare_sheet_with_registrations(
                                         grade, boys, grid, forms))]
            /\ fetches' = Issued(sheets)
    /\ UNCHANGED <<backend, grade, grid, forms, waitlist, count, edits,
                   previous>>

NextCompare ==
    \/ AppendBracketRow
    \/ CallCompareSheetWithRegistrations
    \/ Return

SpecCompare == InitCompare /\ [][NextCompare]_vars

\* C29: in the result of a sheet-against-registrations comparison a bracket row
\* without a team name (empty or whitespace-only) contributes nothing: neither
\* list of names contains the empty string, only_in_sheet is the sheet names
\* that are no registration names, only_in_registrations the registration names
\* that are no sheet names, and the two difference lists share no name.
C29_NamelessRowsContributeNothing ==
    (result.fn = "compare_sheet_with_registrations" /\ result.out.status = "ok") =>
        LET out == result.out.value
            Set(seq) == {seq[i] : i \in DOMAIN seq}
        IN  /\ "" \notin Set(out.sheet_team_names)
            /\ "" \notin Set(out.registration_team_names)
            /\ Set(out.only_in_sheet)
                   = Set(out.sheet_team_names) \ Set(out.registration_team_names)
            /\ Set(out.only_in_registrations)
                   = Set(out.registration_team_names) \ Set(out.sheet_team_names)
            /\ Set(out.only_in_sheet) \cap Set(out.only_in_registrations) = {}

-----------------------------------------------------------------------------
(* The profiles of a person by name *)

\* C30: when both names are given, get_candidate_profiles_by_name returns at
\* most one profile, and that profile's teams list has one entry for every
\* registration row whose contact name matches the query case-insensitively,
\* also when the rows spell the name with different letter case.
C30_OneProfilePerPerson ==
    (/\ result.fn = "get_candidate_profiles_by_name"
     /\ result.out.status = "ok"
     /\ result.args[2] # None) =>
        LET matching == SelectSeq(get_header_and_rows(forms).rows,
                            LAMBDA row : CandidateMatches(row, result.args[1],
                                                          result.args[2], None))
            profiles == result.out.value
        IN  /\ Len(profiles) <= 1
            /\ Len(profiles) = 1 => Len(profiles[1].teams) = Len(matching)
            /\ Len(profiles) = 0 => Len(matching) = 0

=============================================================================
